---- MODULE Spec2Model ----
(***************************************************************************)
(* Record-linkage core of the property dashboard                           *)
(* (src/utils/data_processing.py, class DataProcessor).                    *)
(*                                                                         *)
(* A Python str is modelled as a sequence of characters, each character a  *)
(* one-element atom ("a", "1", " ", ...).  Characters outside ASCII are    *)
(* named by their code point ("U+0663").  None / NaN is the value None.    *)
(***************************************************************************)
EXTENDS Integers, Sequences, FiniteSets, TLC

VARIABLES
    pc,            \* position of the driver of the component under study
    postal_code,   \* argument of normalize_postal_code
    postal_norm,   \* its return value
    postal_again,  \* the return value of normalize_postal_code on postal_norm
    addr_raw,      \* argument of normalize_address
    addr_norm,     \* its return value
    addr_again,    \* the return value of normalize_address on addr_norm
    listings_df,        \* the raw listings table, a sequence of rows
    listings_clean,     \* the return value of clean_listings_data
    demographics_df,    \* the raw demographics table
    demographics_clean, \* the return value of clean_demographics_data
    threshold,          \* argument threshold of fuzzy_match_postal_codes
    listings_matched,   \* the return value of fuzzy_match_postal_codes
    merged,             \* the return value of merge_data
    stats,              \* the return value of get_summary_statistics
    files,              \* the file system: what is stored under each path
    cache,              \* the entry st.cache_data holds for load_data
    self_paths,         \* the DataProcessor process_all_data was called on
    returned,           \* the return value of process_all_data
    raised,             \* the exception that escaped process_all_data
    merged_df,          \* self.merged_df of each DataProcessor
    self_demographics_df, \* self.demographics_df of each DataProcessor
    self_listings_df,   \* self.listings_df of each DataProcessor
    data_loaded,        \* st.session_state.data_loaded
    session_merged_df,  \* st.session_state.merged_df
    invoked,            \* the functions the last rerun of the script called
    frame_call,         \* a component and the tables it is called on
    frame_result        \* what that call returned or raised

postalVars == <<postal_code, postal_norm, postal_again>>

addressVars == <<addr_raw, addr_norm, addr_again>>

listingVars == <<listings_df, listings_clean>>

demographicVars == <<demographics_df, demographics_clean>>

matchVars == <<threshold, listings_matched>>

mergeVars == <<merged, stats>>

pipelineVars ==
    <<files, cache, self_paths, returned, raised, merged_df,
      self_demographics_df, self_listings_df>>

appVars == <<data_loaded, session_merged_df, invoked>>

frameVars == <<frame_call, frame_result>>

vars ==
    <<pc, postalVars, addressVars, listingVars, demographicVars, matchVars,
      mergeVars, pipelineVars, appVars, frameVars>>

----------------------------------------------------------------------------
(* Characters *)

\* pandas' missing value (None / NaN): no str is equal to it
None == <<"<None>">>

isna(v) == v = None

AsciiDigits == {"0", "1", "2", "3", "4", "5", "6", "7", "8", "9"}

\* decimal digits outside ASCII (Unicode category Nd), e.g. ARABIC-INDIC DIGIT THREE
UnicodeDigits == {"U+0663"}

LowerAlpha ==
    <<"a", "b", "c", "d", "e", "f", "g", "h", "i", "j", "k", "l", "m",
      "n", "o", "p", "q", "r", "s", "t", "u", "v", "w", "x", "y", "z">>

UpperAlpha ==
    <<"A", "B", "C", "D", "E", "F", "G", "H", "I", "J", "K", "L", "M",
      "N", "O", "P", "Q", "R", "S", "T", "U", "V", "W", "X", "Y", "Z">>

AlphaIndex == 1..26

LowerLetters == {LowerAlpha[i] : i \in AlphaIndex}

UpperLetters == {UpperAlpha[i] : i \in AlphaIndex}

Whitespace == {" ", "\t"}

\* re: \d on a str pattern matches every Unicode decimal digit
IsDigit(c) == c \in AsciiDigits \cup UnicodeDigits

\* re: \s, and the whitespace of str.strip() and str.split()
IsSpace(c) == c \in Whitespace

\* re: \w is a letter, a digit or the underscore
IsWordChar(c) == c \in LowerLetters \cup UpperLetters \cup AsciiDigits \cup UnicodeDigits \cup {"_"}

\* str.upper() / str.lower(), character by character
UpperChar(c) ==
    IF c \in LowerLetters
    THEN UpperAlpha[CHOOSE i \in AlphaIndex : LowerAlpha[i] = c]
    ELSE c

LowerChar(c) ==
    IF c \in UpperLetters
    THEN LowerAlpha[CHOOSE i \in AlphaIndex : UpperAlpha[i] = c]
    ELSE c

Lower(s) == [i \in 1..Len(s) |-> LowerChar(s[i])]

Upper(s) == [i \in 1..Len(s) |-> UpperChar(s[i])]

RECURSIVE LStrip(_)
LStrip(s) == IF s # <<>> /\ IsSpace(Head(s)) THEN LStrip(Tail(s)) ELSE s

RECURSIVE RStrip(_)
RStrip(s) ==
    IF s # <<>> /\ IsSpace(s[Len(s)]) THEN RStrip(SubSeq(s, 1, Len(s) - 1)) ELSE s

\* str.strip()
Strip(s) == RStrip(LStrip(s))

\* needle in s
Contains(s, needle) ==
    \E i \in 1..(Len(s) - Len(needle) + 1) :
        SubSeq(s, i, i + Len(needle) - 1) = needle

\* s[:n - 1]
Prefix_OneShort(s, n) == SubSeq(s, 1, IF Len(s) < n - 1 THEN Len(s) ELSE n - 1)

\* s[:n]
Prefix(s, n) == SubSeq(s, 1, IF Len(s) < n THEN Len(s) ELSE n)

Zeros(n) == [i \in 1..n |-> "0"]

\* padding with "0" on the right
zfill_RightPad(s, width) == IF Len(s) >= width THEN s ELSE s \o Zeros(width - Len(s))

\* str.zfill(width): pad with "0" on the left, after a leading sign
zfill(s, width) ==
    IF Len(s) >= width THEN s
    ELSE IF s # <<>> /\ Head(s) \in {"+", "-"}
         THEN <<Head(s)>> \o Zeros(width - Len(s)) \o Tail(s)
         ELSE Zeros(width - Len(s)) \o s

\* every digit of s instead of its first run
FirstDigitRun_AllDigits(s) == SelectSeq(s, IsDigit)

\* re.findall(r'\d+', s)[0]: the first maximal run of digits; <<>> when there is none
FirstDigitRun(s) ==
    LET starts == {i \in 1..Len(s) : IsDigit(s[i])}
    IN  IF starts = {} THEN <<>>
        ELSE LET b == CHOOSE i \in starts : \A j \in starts : i <= j
                 ends == {k \in b..Len(s) :
                            /\ \A j \in b..k : IsDigit(s[j])
                            /\ (k = Len(s) \/ ~IsDigit(s[k + 1]))}
                 e == CHOOSE k \in ends : TRUE
             IN  SubSeq(s, b, e)

\* re.sub(r'\D', '', s)
DigitsOnly(s) == SelectSeq(s, IsDigit)

----------------------------------------------------------------------------
(* DataProcessor.normalize_postal_code *)

ZipWidth == 5

normalize_postal_code(postal) ==
    IF isna(postal) THEN None
    ELSE
      LET postal_str == Upper(Strip(postal))
          digits == FirstDigitRun(postal_str)
          digits_only == DigitsOnly(postal_str)
      IN  IF (Contains(postal_str, <<"X", "X">>) \/ Contains(postal_str, <<"X">>))
             /\ digits # <<>>
          THEN zfill(Prefix(digits, ZipWidth), ZipWidth)
          ELSE IF Len(digits_only) >= ZipWidth THEN Prefix(digits_only, ZipWidth)
          ELSE IF Len(digits_only) > 0 THEN zfill(digits_only, ZipWidth)
          ELSE None

----------------------------------------------------------------------------
(* DataProcessor.normalize_address *)

\* re.sub(r'\s+', ' ', s): every maximal run of whitespace becomes one space
RECURSIVE CollapseWhitespace(_)
CollapseWhitespace(s) ==
    IF s = <<>> THEN <<>>
    ELSE IF IsSpace(Head(s))
         THEN <<" ">> \o CollapseWhitespace(LStrip(s))
         ELSE <<Head(s)>> \o CollapseWhitespace(Tail(s))

\* One entry of the replacements dict: the pattern \b lit \.? s? \b (the optional
\* period and the optional plural s as the pattern has them) and its replacement.
Rule(lit, dot, plural, rep) == [lit |-> lit, dot |-> dot, plural |-> plural, rep |-> rep]

replacements ==
    <<
       Rule(<<"s", "t">>, TRUE, FALSE, <<"s", "t", "r", "e", "e", "t">>),
       Rule(<<"a", "v", "e">>, TRUE, FALSE, <<"a", "v", "e", "n", "u", "e">>),
       Rule(<<"a", "v", "e", "n", "u", "e">>, FALSE, FALSE, <<"a", "v", "e", "n", "u", "e">>),
       Rule(<<"s", "t", "r", "a", "v", "e", "n", "u", "e">>, FALSE, FALSE, <<"s", "t", "r", "e", "e", "t">>),
       Rule(<<"b", "l", "v", "d">>, TRUE, FALSE, <<"b", "o", "u", "l", "e", "v", "a", "r", "d">>),
       Rule(<<"r", "d">>, TRUE, FALSE, <<"r", "o", "a", "d">>),
       Rule(<<"d", "r">>, TRUE, FALSE, <<"d", "r", "i", "v", "e">>),
       Rule(<<"l", "n">>, TRUE, FALSE, <<"l", "a", "n", "e">>),
       Rule(<<"c", "t">>, TRUE, FALSE, <<"c", "o", "u", "r", "t">>),
       Rule(<<"p", "l">>, TRUE, FALSE, <<"p", "l", "a", "c", "e">>),
       Rule(<<"p", "k", "w", "y">>, TRUE, FALSE, <<"p", "a", "r", "k", "w", "a", "y">>),
       Rule(<<"c", "i", "r">>, TRUE, FALSE, <<"c", "i", "r", "c", "l", "e">>),
       Rule(<<"s", "q">>, TRUE, FALSE, <<"s", "q", "u", "a", "r", "e">>),
       Rule(<<"s", "q", "u", "a", "r", "e", "s">>, FALSE, FALSE, <<"s", "q", "u", "a", "r", "e">>),
       Rule(<<"j", "u", "n", "c", "t", "i", "o", "n">>, TRUE, TRUE, <<"j", "u", "n", "c", "t", "i", "o", "n">>),
       Rule(<<"t", "r", "a", "c", "k">>, FALSE, FALSE, <<"t", "r", "a", "c", "t">>),
       Rule(<<"w", "a", "l", "k">>, FALSE, FALSE, <<"w", "a", "l", "k">>),
       Rule(<<"b", "y", "p", "a", "s", "s">>, FALSE, FALSE, <<"b", "y", "p", "a", "s", "s">>),
       Rule(<<"r", "a", "d", "i", "a", "l">>, FALSE, FALSE, <<"r", "a", "d", "i", "a", "l">>),
       Rule(<<"f", "o", "r", "t">>, FALSE, FALSE, <<"f", "o", "r", "t">>),
       Rule(<<"l", "i", "g", "h", "t">>, FALSE, FALSE, <<"l", "i", "g", "h", "t">>),
       Rule(<<"s", "t", "r", "e", "a", "m">>, FALSE, FALSE, <<"s", "t", "r", "e", "a", "m">>),
       Rule(<<"v", "i", "l", "l", "a", "g", "e">>, FALSE, FALSE, <<"v", "i", "l", "l", "a", "g", "e">>),
       Rule(<<"k", "n", "o", "l", "l">>, FALSE, FALSE, <<"k", "n", "o", "l", "l">>),
       Rule(<<"k", "e", "y">>, FALSE, FALSE, <<"k", "e", "y">>),
       Rule(<<"f", "o", "r", "k">>, TRUE, TRUE, <<"f", "o", "r", "k">>)
    >>

\* re: \b holds before position i of s (1..Len(s)+1) when exactly one of the
\* characters on its two sides is a word character
WordBoundary(s, i) ==
    (i > 1 /\ IsWordChar(s[i - 1])) # (i <= Len(s) /\ IsWordChar(s[i]))

CharAt(s, i, c) == i <= Len(s) /\ s[i] = c

\* the patterns with a mandatory period (\. for \.?)
MatchLen_PeriodRequired(rule, s, i) ==
    LET n == Len(rule.lit)
        e == i + n
    IN  IF ~(s[i] = rule.lit[1] /\ WordBoundary(s, i)) THEN 0
        ELSE IF ~(e - 1 <= Len(s) /\ SubSeq(s, i, e - 1) = rule.lit) THEN 0
        ELSE IF rule.dot /\ CharAt(s, e, ".") /\ rule.plural /\ CharAt(s, e + 1, "s")
                /\ WordBoundary(s, e + 2) THEN n + 2
        ELSE IF rule.dot /\ CharAt(s, e, ".") /\ WordBoundary(s, e + 1) THEN n + 1
        ELSE IF ~rule.dot /\ rule.plural /\ CharAt(s, e, "s") /\ WordBoundary(s, e + 1)
             THEN n + 1
        ELSE IF ~rule.dot /\ WordBoundary(s, e) THEN n
        ELSE 0

\* Length of the match of a rule's pattern that starts at position i of s, 0 when
\* there is none.  The optional parts are greedy: the longest alternative that lets
\* the closing \b hold is taken first, as the backtracking matcher does.
MatchLen(rule, s, i) ==
    LET n == Len(rule.lit)
        e == i + n
    IN  IF ~(s[i] = rule.lit[1] /\ WordBoundary(s, i)) THEN 0
        ELSE IF ~(e - 1 <= Len(s) /\ SubSeq(s, i, e - 1) = rule.lit) THEN 0
        ELSE IF rule.dot /\ CharAt(s, e, ".") /\ rule.plural /\ CharAt(s, e + 1, "s")
                /\ WordBoundary(s, e + 2) THEN n + 2
        ELSE IF rule.dot /\ CharAt(s, e, ".") /\ WordBoundary(s, e + 1) THEN n + 1
        ELSE IF rule.plural /\ CharAt(s, e, "s") /\ WordBoundary(s, e + 1) THEN n + 1
        ELSE IF WordBoundary(s, e) THEN n
        ELSE 0

\* re.sub(pattern, replacement, s) from position i on: leftmost matches, not
\* overlapping, each found on the string as it was before the substitution
RECURSIVE SubFrom(_, _, _)
SubFrom(rule, s, i) ==
    IF i > Len(s) THEN <<>>
    ELSE LET m == MatchLen(rule, s, i)
         IN  IF m > 0 THEN rule.rep \o SubFrom(rule, s, i + m)
             ELSE <<s[i]>> \o SubFrom(rule, s, i + 1)

Sub(rule, s) == SubFrom(rule, s, 1)

\* for pattern, replacement in replacements.items(): addr = re.sub(...)
RECURSIVE ApplyRules(_, _)
ApplyRules(rules, s) ==
    IF rules = <<>> THEN s ELSE ApplyRules(Tail(rules), Sub(Head(rules), s))

KeptByPunctuationFilter(c) == IsWordChar(c) \/ IsSpace(c)

\* re.sub(r'[^\w\s]', '', s)
RemovePunctuation(s) == SelectSeq(s, KeptByPunctuationFilter)

\* str.split(): the maximal runs of non-whitespace characters
RECURSIVE SplitFrom(_, _)
SplitFrom(s, cur) ==
    IF s = <<>> THEN (IF cur = <<>> THEN <<>> ELSE <<cur>>)
    ELSE IF IsSpace(Head(s))
         THEN (IF cur = <<>> THEN <<>> ELSE <<cur>>) \o SplitFrom(Tail(s), <<>>)
         ELSE SplitFrom(Tail(s), Append(cur, Head(s)))

Split(s) == SplitFrom(s, <<>>)

\* str.isdigit()
isdigit(word) == word # <<>> /\ \A i \in 1..Len(word) : IsDigit(word[i])

RECURSIVE DedupLoop(_, _)

\* the loop without its exception for numeric words
DedupLoop_NoNumericException(words, seen) ==
    IF words = <<>> THEN <<>>
    ELSE LET word == Head(words)
         IN  IF word \notin seen
             THEN <<word>> \o DedupLoop(Tail(words), seen \cup {word})
             ELSE DedupLoop(Tail(words), seen)

\* the loop over words: a word is appended unless it was seen and is not numeric
DedupLoop(words, seen) ==
    IF words = <<>> THEN <<>>
    ELSE LET word == Head(words)
         IN  IF word \notin seen \/ isdigit(word)
             THEN <<word>> \o DedupLoop(Tail(words), seen \cup {word})
             ELSE DedupLoop(Tail(words), seen)

\* ' '.join(result)
RECURSIVE Join(_)
Join(words) ==
    IF words = <<>> THEN <<>>
    ELSE IF Len(words) = 1 THEN Head(words)
    ELSE Head(words) \o <<" ">> \o Join(Tail(words))

\* addr after the abbreviation rules (lines 101-137)
Expanded(address) == ApplyRules(replacements, CollapseWhitespace(Strip(Lower(address))))

\* the list words of line 143
AddressWords(address) == Split(RemovePunctuation(Expanded(address)))

normalize_address(address) ==
    IF isna(address) THEN <<>>
    ELSE Join(DedupLoop(AddressWords(address), {}))

----------------------------------------------------------------------------
(* Tables and cell values.  A DataFrame is a sequence of rows, a row a      *)
(* record of its columns.  A cell is None (NaN), a str, an integer Num(n),  *)
(* or a float that came out of a rounded division: Dec(c) is c/100, and     *)
(* Inf is the IEEE infinity.                                                *)

Num(n) == <<"num", n>>

Dec(c) == <<"dec", c>>

Inf == <<"inf">>

IsNum(v) == Len(v) = 2 /\ v[1] = "num"

IsDec(v) == Len(v) = 2 /\ v[1] = "dec"

IsStr(v) == v # None /\ v # Inf /\ ~IsNum(v) /\ ~IsDec(v)

DigitChars == <<"0", "1", "2", "3", "4", "5", "6", "7", "8", "9">>

DigitValue(c) == (CHOOSE i \in 1..10 : DigitChars[i] = c) - 1

RECURSIVE DecimalValue(_)
DecimalValue(s) ==
    IF s = <<>> THEN 0
    ELSE 10 * DecimalValue(SubSeq(s, 1, Len(s) - 1)) + DigitValue(s[Len(s)])

\* str(n) of an int
RECURSIVE IntToStr(_)
IntToStr(n) ==
    IF n < 0 THEN <<"-">> \o IntToStr(-n)
    ELSE IF n < 10 THEN <<DigitChars[n + 1]>>
    ELSE IntToStr(n \div 10) \o <<DigitChars[(n % 10) + 1]>>

\* pd.to_numeric(cell, errors='coerce'): a number stays, a str of decimal
\* digits is parsed, anything else becomes NaN
to_numeric(v) ==
    IF v = None THEN None
    ELSE IF IsNum(v) THEN v
    ELSE IF v # <<>> /\ \A i \in 1..Len(v) : v[i] \in AsciiDigits THEN Num(DecimalValue(v))
    ELSE None

\* the quotient a / b (b > 0, a >= 0) in hundredths, rounded half to even
RoundedQuotient(a, b) ==
    LET q == (100 * a) \div b
        r == (100 * a) % b
    IN  IF 2 * r < b THEN q
        ELSE IF 2 * r > b THEN q + 1
        ELSE IF q % 2 = 0 THEN q ELSE q + 1

\* (x / y).round(2) on two numeric cells, as float arithmetic does it: a NaN
\* operand gives NaN, x / 0 is inf for x > 0 and NaN for x = 0
DivideRound2(x, y) ==
    IF x = None \/ y = None THEN None
    ELSE IF y[2] = 0 THEN (IF x[2] = 0 THEN None ELSE Inf)
    ELSE Dec(RoundedQuotient(x[2], y[2]))

----------------------------------------------------------------------------
(* DataProcessor.clean_listings_data *)

ListingRow(raw_address, postal, price, size, beds) ==
    [raw_address |-> raw_address, postal_code |-> postal, listing_price |-> price,
     sq_ft |-> size, bedrooms |-> beds]

\* lines 167-179: the two normalized columns and the three coerced columns
NormalizedListing(r) ==
    [raw_address |-> r.raw_address,
     postal_code |-> r.postal_code,
     postal_code_normalized |-> normalize_postal_code(r.postal_code),
     address_normalized |-> normalize_address(r.raw_address),
     sq_ft |-> to_numeric(r.sq_ft),
     bedrooms |-> to_numeric(r.bedrooms),
     listing_price |-> to_numeric(r.listing_price)]

\* a dropna over the bedroom count and the normalized postal code as well
HasPriceAndSize_AndTheRest(r) ==
    /\ r.listing_price # None /\ r.sq_ft # None
    /\ r.bedrooms # None /\ r.postal_code_normalized # None

\* line 182: dropna(subset=['listing_price', 'sq_ft'])
HasPriceAndSize(r) == r.listing_price # None /\ r.sq_ft # None

\* lines 185-187
WithPricePerSqft(r) ==
    r @@ [price_per_sqft |-> DivideRound2(r.listing_price, r.sq_ft)]

clean_listings_data(df) ==
    LET normalized == [i \in 1..Len(df) |-> NormalizedListing(df[i])]
        kept == SelectSeq(normalized, HasPriceAndSize)
    IN  [i \in 1..Len(kept) |-> WithPricePerSqft(kept[i])]

----------------------------------------------------------------------------
(* DataProcessor.clean_demographics_data *)

DemographicRow(zip, income, rating, crime) ==
    [zip_code |-> zip, median_income |-> income, school_rating |-> rating,
     crime_index |-> crime]

\* the dtype read_csv gives a column: object when a cell is a str, float64
\* when the cells are numbers and one is missing, int64 otherwise
ColumnDtype(cells) ==
    IF \E i \in 1..Len(cells) : IsStr(cells[i]) THEN "object"
    ELSE IF \E i \in 1..Len(cells) : cells[i] = None THEN "float64"
    ELSE "int64"

\* Series.astype(str), cell by cell: str(501) = "501", str(501.0) = "501.0",
\* str(nan) = "nan", a str is itself
astype_str(v, dtype) ==
    IF v = None THEN <<"n", "a", "n">>
    ELSE IF IsNum(v)
         THEN (IF dtype = "float64" THEN IntToStr(v[2]) \o <<".", "0">> ELSE IntToStr(v[2]))
    ELSE v

\* str.title(): a letter is upper-cased unless the character before it is a letter
Title(s) ==
    [i \in 1..Len(s) |->
        IF i > 1 /\ s[i - 1] \in LowerLetters \cup UpperLetters
        THEN LowerChar(s[i]) ELSE UpperChar(s[i])]

\* .str.strip().str.title() on a cell: a missing cell stays missing
StripTitle(v) == IF v = None THEN None ELSE Title(Strip(v))

clean_demographics_data(df) ==
    LET dtype == ColumnDtype([i \in 1..Len(df) |-> df[i].zip_code])
    IN  [i \in 1..Len(df) |->
            [zip_code |-> zfill(astype_str(df[i].zip_code, dtype), ZipWidth),
             median_income |-> to_numeric(df[i].median_income),
             school_rating |-> to_numeric(df[i].school_rating),
             crime_index |-> StripTitle(df[i].crime_index)]]

----------------------------------------------------------------------------
(* DataProcessor.fuzzy_match_postal_codes *)

\* Series.unique().tolist(): the values in the order of their first occurrence
RECURSIVE Unique(_)
Unique(values) ==
    IF values = <<>> THEN <<>>
    ELSE LET rest == Unique(SubSeq(values, 1, Len(values) - 1))
             last == values[Len(values)]
         IN  IF \E i \in 1..Len(rest) : rest[i] = last THEN rest ELSE Append(rest, last)

Max(a, b) == IF a >= b THEN a ELSE b

\* length of a longest common subsequence
RECURSIVE LCS(_, _)
LCS(a, b) ==
    IF a = <<>> \/ b = <<>> THEN 0
    ELSE IF Head(a) = Head(b) THEN 1 + LCS(Tail(a), Tail(b))
    ELSE Max(LCS(Tail(a), b), LCS(a, Tail(b)))

\* A score is a fraction <<numerator, denominator>> of the 0..100 scale.
\* fuzz.ratio: the normalized Indel similarity, 100 * 2 * LCS / (len1 + len2)
fuzz_ratio(s1, s2) ==
    IF Len(s1) + Len(s2) = 0 THEN <<100, 1>>
    ELSE <<200 * LCS(s1, s2), Len(s1) + Len(s2)>>

ScoreGE(a, b) == a[1] * b[2] >= b[1] * a[2]

ScoreGT(a, b) == a[1] * b[2] > b[1] * a[2]

RECURSIVE ExtractLoop(_, _, _, _)

\* the loop with a strict comparison against the cutoff
ExtractLoop_StrictCutoff(query, choices, score_cutoff, result) ==
    IF choices = <<>> THEN result
    ELSE LET choice == Head(choices)
             score == fuzz_ratio(query, choice)
         IN  IF ScoreGT(score, score_cutoff) /\ (result = None \/ ScoreGT(score, result[2]))
             THEN ExtractLoop(query, Tail(choices), score, <<choice, score>>)
             ELSE ExtractLoop(query, Tail(choices), score_cutoff, result)

\* the loop that lets a later choice of the same score replace the result
ExtractLoop_LastOfTies(query, choices, score_cutoff, result) ==
    IF choices = <<>> THEN result
    ELSE LET choice == Head(choices)
             score == fuzz_ratio(query, choice)
         IN  IF ScoreGE(score, score_cutoff)
             THEN ExtractLoop(query, Tail(choices), score, <<choice, score>>)
             ELSE ExtractLoop(query, Tail(choices), score_cutoff, result)

\* process.extractOne: the choices in order; a choice becomes the result when its
\* score reaches the cutoff and is greater than the score of the result so far
ExtractLoop(query, choices, score_cutoff, result) ==
    IF choices = <<>> THEN result
    ELSE LET choice == Head(choices)
             score == fuzz_ratio(query, choice)
         IN  IF ScoreGE(score, score_cutoff) /\ (result = None \/ ScoreGT(score, result[2]))
             THEN ExtractLoop(query, Tail(choices), score, <<choice, score>>)
             ELSE ExtractLoop(query, Tail(choices), score_cutoff, result)

extractOne(query, choices, score_cutoff) ==
    ExtractLoop(query, choices, <<score_cutoff, 1>>, None)

\* find_best_match without the exact-match test of lines 246-248
find_best_match_FuzzyOnly(postal, valid_zips, cutoff) ==
    IF isna(postal) THEN None
    ELSE LET result == extractOne(postal, valid_zips, cutoff)
         IN  IF result # None THEN result[1] ELSE None

\* find_best_match that hands the postal code back when nothing matches
find_best_match_KeepsPostal(postal, valid_zips, cutoff) ==
    IF isna(postal) THEN None
    ELSE IF \E i \in 1..Len(valid_zips) : valid_zips[i] = postal THEN postal
    ELSE LET result == extractOne(postal, valid_zips, cutoff)
         IN  IF result # None THEN result[1] ELSE postal

find_best_match(postal, valid_zips, cutoff) ==
    IF isna(postal) THEN None
    ELSE IF \E i \in 1..Len(valid_zips) : valid_zips[i] = postal THEN postal
    ELSE LET result == extractOne(postal, valid_zips, cutoff)
         IN  IF result # None THEN result[1] ELSE None

\* valid_zips of line 237
ValidZips(demographics) == Unique([i \in 1..Len(demographics) |-> demographics[i].zip_code])

\* the default of the parameter threshold
DefaultThreshold == 80

fuzzy_match_postal_codes(listings, demographics, cutoff) ==
    LET valid_zips == ValidZips(demographics)
    IN  [i \in 1..Len(listings) |->
            listings[i] @@
            [matched_zip_code |->
                find_best_match(listings[i].postal_code_normalized, valid_zips, cutoff)]]

----------------------------------------------------------------------------
(* DataProcessor.merge_data *)

\* the concatenation of a sequence of sequences
RECURSIVE Flatten(_)
Flatten(ss) == IF ss = <<>> THEN <<>> ELSE Head(ss) \o Flatten(Tail(ss))

\* the columns of the right table on a left row that has no partner
NullDemographics ==
    [zip_code |-> None, median_income |-> None, school_rating |-> None,
     crime_index |-> None]

\* an inner join: a left row without a partner gives no row
JoinedRows_InnerJoin(l, demographics) ==
    LET partners == SelectSeq(demographics, LAMBDA d : d.zip_code = l.matched_zip_code)
    IN  [k \in 1..Len(partners) |-> l @@ partners[k]]

\* a cross join: every left row with every right row, whatever the keys
JoinedRows_CrossJoin(l, demographics) ==
    [k \in 1..Len(demographics) |-> l @@ demographics[k]]

\* pd.merge(how='left') on one left row: one joined row for every right row
\* whose zip_code equals its matched_zip_code, in the order of the right
\* table, and one null-filled row when there is none
JoinedRows(l, demographics) ==
    LET partners == SelectSeq(demographics, LAMBDA d : d.zip_code = l.matched_zip_code)
    IN  IF partners = <<>> THEN << l @@ NullDemographics >>
        ELSE [k \in 1..Len(partners) |-> l @@ partners[k]]

\* the quotient cut after 2 decimals instead of rounded
WithPriceToIncomeRatio_Truncated(r) ==
    r @@ [price_to_income_ratio |->
            IF r.listing_price = None \/ r.median_income = None THEN None
            ELSE IF r.median_income[2] = 0
                 THEN (IF r.listing_price[2] = 0 THEN None ELSE Inf)
            ELSE Dec((100 * r.listing_price[2]) \div r.median_income[2])]

\* lines 293-297; both columns are in every merged table
WithPriceToIncomeRatio(r) ==
    r @@ [price_to_income_ratio |-> DivideRound2(r.listing_price, r.median_income)]

merge_data(listings, demographics) ==
    LET joined == Flatten([i \in 1..Len(listings) |-> JoinedRows(listings[i], demographics)])
    IN  [k \in 1..Len(joined) |-> WithPriceToIncomeRatio(joined[k])]

----------------------------------------------------------------------------
(* DataProcessor.get_summary_statistics *)

RECURSIVE Sum(_)
Sum(cells) == IF cells = <<>> THEN 0 ELSE Head(cells)[2] + Sum(Tail(cells))

\* Series.mean(): the mean of the cells that are not null, as the fraction
\* <<"mean", sum, count>> (of hundredths for a column of rounded quotients);
\* NaN when every cell is null, inf when a cell is inf
mean(cells) ==
    LET present == SelectSeq(cells, LAMBDA v : v # None)
    IN  IF present = <<>> THEN None
        ELSE IF \E i \in 1..Len(present) : present[i] = Inf THEN Inf
        ELSE <<"mean", Sum(present), Len(present)>>

Column(df, name) == [i \in 1..Len(df) |-> df[i][name]]

\* a distinct count that counts the null as a value
nunique_CountsAbsent(cells) == Cardinality({ cells[i] : i \in 1..Len(cells) })

\* Series.nunique(): the number of distinct values, nulls left out
nunique(cells) == Cardinality({ cells[i] : i \in 1..Len(cells) } \ {None})

\* the dict {}
EmptyDict == [field \in {} |-> None]

get_summary_statistics(df) ==
    IF df = <<>> THEN EmptyDict
    ELSE [total_listings |-> Len(df),
          avg_price |-> mean(Column(df, "listing_price")),
          avg_price_per_sqft |-> mean(Column(df, "price_per_sqft")),
          avg_sqft |-> mean(Column(df, "sq_ft")),
          avg_bedrooms |-> mean(Column(df, "bedrooms")),
          avg_median_income |-> mean(Column(df, "median_income")),
          avg_school_rating |-> mean(Column(df, "school_rating")),
          unique_zip_codes |-> nunique(Column(df, "matched_zip_code"))]

----------------------------------------------------------------------------
(* DataProcessor.load_data and DataProcessor.process_all_data.  A file is   *)
(* <<kind, rows>>: "missing" (no file under the path), "denied" (a file     *)
(* that cannot be opened for reading) or "csv" with the rows of its table.  *)

MissingFile == <<"missing", <<>>>>

DeniedFile == <<"denied", <<>>>>

CsvFile(rows) == <<"csv", rows>>

NoException == "<no exception>"

\* the outcome of a call: a pair of tables, or the exception that left it
Return(demographics, listings) ==
    [exception |-> NoException, demographics_df |-> demographics, listings_df |-> listings]

Raise(exception) ==
    [exception |-> exception, demographics_df |-> <<>>, listings_df |-> <<>>]

\* pd.read_csv: the table of the file, or the exception of the failed open
read_csv(file) ==
    IF file[1] = "missing" THEN [exception |-> "FileNotFoundError", table |-> <<>>]
    ELSE IF file[1] = "denied" THEN [exception |-> "PermissionError", table |-> <<>>]
    ELSE [exception |-> NoException, table |-> file[2]]

\* lines 40-46: the demographics file is read first; FileNotFoundError is
\* the one exception that is handled, by returning two empty tables
load_data_body(paths, fs) ==
    LET demographics == read_csv(fs[paths.demographics_path])
        listings == read_csv(fs[paths.listings_path])
        failed == IF demographics.exception # NoException THEN demographics.exception
                  ELSE listings.exception
    IN  IF failed = NoException THEN Return(demographics.table, listings.table)
        ELSE IF failed = "FileNotFoundError" THEN Return(<<>>, <<>>)
        ELSE Raise(failed)

\* line 32: st.cache_data(ttl=3600) around load_data.  The parameter is named
\* _self, which keeps it out of the cache key, so the calls of every
\* DataProcessor share one entry; store is <<>> or <<the value kept>>.  A
\* call that raises stores nothing.
load_data(paths, fs, store) ==
    IF store # <<>> THEN [value |-> store[1], cache |-> store]
    ELSE LET value == load_data_body(paths, fs)
         IN  [value |-> value,
              cache |-> IF value.exception = NoException THEN <<value>> ELSE store]

\* lines 316-326 on two loaded tables
process_tables(demographics, listings) ==
    LET cleaned_listings == clean_listings_data(listings)
        cleaned_demographics == clean_demographics_data(demographics)
        matched == fuzzy_match_postal_codes(cleaned_listings, cleaned_demographics,
                                            DefaultThreshold)
    IN  merge_data(matched, cleaned_demographics)

\* process_all_data that assigns self.merged_df before the test of lines 311-313
process_all_data_AssignsEmpty(paths, fs, store) ==
    LET loaded == load_data(paths, fs, store)
        value == loaded.value
    IN  IF value.exception # NoException
        THEN [returned |-> <<>>, raised |-> value.exception, assigned |-> FALSE,
              cache |-> loaded.cache]
        ELSE IF value.demographics_df = <<>> \/ value.listings_df = <<>>
        THEN [returned |-> <<>>, raised |-> NoException, assigned |-> TRUE,
              cache |-> loaded.cache]
        ELSE [returned |-> process_tables(value.demographics_df, value.listings_df),
              raised |-> NoException, assigned |-> TRUE, cache |-> loaded.cache]

\* process_all_data: what it returns or raises, whether it assigns
\* self.merged_df, and the cache it leaves
process_all_data(paths, fs, store) ==
    LET loaded == load_data(paths, fs, store)
        value == loaded.value
    IN  IF value.exception # NoException
        THEN [returned |-> <<>>, raised |-> value.exception, assigned |-> FALSE,
              cache |-> loaded.cache]
        ELSE IF value.demographics_df = <<>> \/ value.listings_df = <<>>
        THEN [returned |-> <<>>, raised |-> NoException, assigned |-> FALSE,
              cache |-> loaded.cache]
        ELSE [returned |-> process_tables(value.demographics_df, value.listings_df),
              raised |-> NoException, assigned |-> TRUE, cache |-> loaded.cache]

----------------------------------------------------------------------------
(* Drivers.  Each component is studied under a specification of its own:   *)
(* the initial states draw its arguments from a bounded set and the        *)
(* actions call it.  The variables of the other components stay idle.      *)

\* every concatenation of at most n pieces
Concats(pieces, n) == { Flatten(ps) : ps \in UNION { [1..k -> pieces] : k \in 0..n } }

\* every table of at most n rows
Tables(rows, n) == UNION { [1..k -> rows] : k \in 0..n }

PostalIdle == postal_code = None /\ postal_norm = None /\ postal_again = None

AddressIdle == addr_raw = None /\ addr_norm = None /\ addr_again = None

ListingIdle == listings_df = <<>> /\ listings_clean = <<>>

DemographicIdle == demographics_df = <<>> /\ demographics_clean = <<>>

MatchIdle == threshold = 0 /\ listings_matched = <<>>

MergeIdle == merged = <<>> /\ stats = EmptyDict

\* the DataProcessor of app.py, and one made with another demographics file
AppProcessor ==
    [demographics_path |-> "data/demographics.csv", listings_path |-> "data/listings.csv"]

OtherProcessor ==
    [demographics_path |-> "other/demographics.csv", listings_path |-> "data/listings.csv"]

Processors == {AppProcessor, OtherProcessor}

Paths == UNION { {p.demographics_path, p.listings_path} : p \in Processors }

\* lines 28-30: self.merged_df is None after construction (<<>> here, and
\* <<table>> once a table is assigned)
Constructed ==
    /\ cache = <<>>
    /\ self_paths = AppProcessor
    /\ returned = <<>>
    /\ raised = NoException
    /\ merged_df = [p \in Processors |-> <<>>]
    /\ self_demographics_df = [p \in Processors |-> <<>>]
    /\ self_listings_df = [p \in Processors |-> <<>>]

PipelineIdle == files = [path \in Paths |-> MissingFile] /\ Constructed

\* app.py lines 510-512: the session state of a new session
AppIdle == data_loaded = FALSE /\ session_merged_df = <<>> /\ invoked = {}

FrameIdle == frame_call = <<>> /\ frame_result = <<>>

----------------------------------------------------------------------------
(* app.py: load_and_process_data.  A session is the record of its two       *)
(* entries, merged_df being <<>> for None.                                  *)

Session(loaded, table) == [data_loaded |-> loaded, merged_df |-> table]

\* Path.exists()
exists(file) == file[1] # "missing"

\* the outcome of load_and_process_data: the session it leaves, the cache,
\* what process_all_data returned and the exception that escaped, and the
\* functions called
AppOutcome(session, store, table, exception, called) ==
    [session |-> session, cache |-> store, returned |-> table, raised |-> exception,
     invoked |-> called]

\* lines 537-544 without the test of merged_df.empty
AfterProcessAllData_KeepsEmpty(session, call) ==
    LET called == {"load_and_process_data", "process_all_data"}
    IN  IF call.raised # NoException
        THEN AppOutcome(session, call.cache, <<>>, call.raised, called)
        ELSE AppOutcome(Session(TRUE, <<call.returned>>), call.cache, call.returned,
                        NoException, called)

\* lines 537-544, call being the outcome of processor.process_all_data(): an
\* exception goes on to the caller, an empty table leaves the session alone
AfterProcessAllData(session, call) ==
    LET called == {"load_and_process_data", "process_all_data"}
    IN  IF call.raised # NoException
        THEN AppOutcome(session, call.cache, <<>>, call.raised, called)
        ELSE IF call.returned = <<>>
        THEN AppOutcome(session, call.cache, call.returned, NoException, called)
        ELSE AppOutcome(Session(TRUE, <<call.returned>>), call.cache, call.returned,
                        NoException, called)

\* lines 515-544
load_and_process_data(session, fs, store) ==
    IF ~exists(fs[AppProcessor.demographics_path]) \/ ~exists(fs[AppProcessor.listings_path])
    THEN AppOutcome(session, store, <<>>, NoException, {"load_and_process_data"})
    ELSE AfterProcessAllData(session, process_all_data(AppProcessor, fs, store))

\* main, lines 716-721: the script loads unless the session says it has
main(session, fs, store) ==
    IF ~session.data_loaded THEN load_and_process_data(session, fs, store)
    ELSE AppOutcome(session, store, <<>>, NoException, {})

----------------------------------------------------------------------------
(* normalize_postal_code on None and on every concatenation of at most     *)
(* MaxPostalPieces pieces.                                                 *)

MaxPostalPieces == 3

PostalPieces ==
    { <<"3", "2", "5">>, <<"9", "0", "2", "1">>, <<"1", "2">>, <<"3", "4", "5">>,
      <<"0">>, <<"X">>, <<"x">>, <<" ">>, <<"-">>, <<"U+0663">> }

PostalInputs == {None} \cup Concats(PostalPieces, MaxPostalPieces)

InitPostal ==
    /\ pc = "postal_raw"
    /\ postal_code \in PostalInputs
    /\ postal_norm = None
    /\ postal_again = None
    /\ AddressIdle /\ ListingIdle /\ DemographicIdle /\ MatchIdle /\ MergeIdle /\ PipelineIdle /\ AppIdle /\ FrameIdle

NormalizePostalCode ==
    /\ pc = "postal_raw"
    /\ postal_norm' = normalize_postal_code(postal_code)
    /\ pc' = "postal_normalized"
    /\ UNCHANGED <<postal_code, postal_again, addressVars, listingVars, demographicVars, matchVars, mergeVars, pipelineVars, appVars, frameVars>>

\* the function applied to what it returned
NormalizePostalCodeAgain ==
    /\ pc = "postal_normalized"
    /\ postal_again' = normalize_postal_code(postal_norm)
    /\ pc' = "postal_renormalized"
    /\ UNCHANGED <<postal_code, postal_norm, addressVars, listingVars, demographicVars, matchVars, mergeVars, pipelineVars, appVars, frameVars>>

NextPostal == NormalizePostalCode \/ NormalizePostalCodeAgain

SpecPostal == InitPostal /\ [][NextPostal]_vars

----------------------------------------------------------------------------
(* normalize_address on None, on every concatenation of at most            *)
(* MaxAddressPieces pieces, on every abbreviation of the rule table in a   *)
(* few contexts, and on the addresses the documentation names.             *)

MaxAddressPieces == 3

AddressPieces ==
    { <<"s">>, <<"t">>, <<"s", "t">>, <<".">>, <<"-">>, <<"_">>, <<" ">>, <<"\t">>, <<"1">>,
      <<"a", "v", "e">>, <<"M", "a", "i", "n">> }

\* the abbreviations the documentation lists, each with its full form
Abbreviations ==
    { <<<<"s", "t">>, <<"s", "t", "r", "e", "e", "t">>>>,
      <<<<"a", "v", "e">>, <<"a", "v", "e", "n", "u", "e">>>>,
      <<<<"b", "l", "v", "d">>, <<"b", "o", "u", "l", "e", "v", "a", "r", "d">>>>,
      <<<<"r", "d">>, <<"r", "o", "a", "d">>>>,
      <<<<"d", "r">>, <<"d", "r", "i", "v", "e">>>>,
      <<<<"l", "n">>, <<"l", "a", "n", "e">>>>,
      <<<<"c", "t">>, <<"c", "o", "u", "r", "t">>>>,
      <<<<"p", "l">>, <<"p", "l", "a", "c", "e">>>>,
      <<<<"p", "k", "w", "y">>, <<"p", "a", "r", "k", "w", "a", "y">>>>,
      <<<<"c", "i", "r">>, <<"c", "i", "r", "c", "l", "e">>>>,
      <<<<"s", "q">>, <<"s", "q", "u", "a", "r", "e">>>> }

Capitalized(w) == <<UpperChar(Head(w))>> \o Tail(w)

ContextBefore ==
    { <<>>, <<"1", "2", "3", " ", "M", "a", "i", "n", " ">>, <<"S", "t", ".", " ">> }

ContextAfter == { <<>>, <<" ", "5">>, <<" ", "s", "t">> }

AbbreviationInputs ==
    { before \o word \o dot \o after :
        before \in ContextBefore,
        word \in UNION { {a[1], Capitalized(a[1])} : a \in Abbreviations },
        dot \in { <<>>, <<".">> },
        after \in ContextAfter }

Addr_1Main1Main == <<"1", " ", "M", "a", "i", "n", " ", "1", " ", "M", "a", "i", "n">>

Addr_123MainSt == <<"1", "2", "3", " ", "M", "a", "i", "n", " ", "S", "t", ".">>

AddressExamples ==
    { Addr_1Main1Main, Addr_123MainSt,
      <<"a", "-", "v", "e">>,
      <<" ", "1", "\t", "\t", "M", "a", "i", "n", " ", " ", "S", "t", ".", " ">>,
      <<"1", "2", " ", "T", "r", "a", "c", "k", " ", "1", "2", " ", "F", "o", "r", "k", "s">> }

AddressInputs ==
    {None} \cup Concats(AddressPieces, MaxAddressPieces)
           \cup AbbreviationInputs \cup AddressExamples

InitAddress ==
    /\ pc = "address_raw"
    /\ addr_raw \in AddressInputs
    /\ addr_norm = None
    /\ addr_again = None
    /\ PostalIdle /\ ListingIdle /\ DemographicIdle /\ MatchIdle /\ MergeIdle /\ PipelineIdle /\ AppIdle /\ FrameIdle

NormalizeAddress ==
    /\ pc = "address_raw"
    /\ addr_norm' = normalize_address(addr_raw)
    /\ pc' = "address_normalized"
    /\ UNCHANGED <<addr_raw, addr_again, postalVars, listingVars, demographicVars, matchVars, mergeVars, pipelineVars, appVars, frameVars>>

NormalizeAddressAgain ==
    /\ pc = "address_normalized"
    /\ addr_again' = normalize_address(addr_norm)
    /\ pc' = "address_renormalized"
    /\ UNCHANGED <<addr_raw, addr_norm, postalVars, listingVars, demographicVars, matchVars, mergeVars, pipelineVars, appVars, frameVars>>

NextAddress == NormalizeAddress \/ NormalizeAddressAgain

SpecAddress == InitAddress /\ [][NextAddress]_vars

----------------------------------------------------------------------------
(* clean_listings_data on every table of at most MaxListings rows.  As     *)
(* read_csv leaves them, the cells of one column are all numbers or all    *)
(* strs, apart from the missing ones.                                      *)

MaxListings == 2

Addr_1MainSt == <<"1", " ", "M", "a", "i", "n", " ", "S", "t">>

Postal_100XX == <<"1", "0", "0", "X", "X">>

NotANumber == <<"n", "/", "a">>

ListingRows ==
    { ListingRow(Addr_1MainSt, Postal_100XX, Num(300000), Num(1500), Num(3)),
      ListingRow(Addr_1MainSt, Postal_100XX, None, Num(1500), Num(3)),
      ListingRow(Addr_1MainSt, Postal_100XX, Num(300000), None, Num(3)),
      ListingRow(Addr_1MainSt, Postal_100XX, Num(300000), Num(0), Num(3)),
      ListingRow(Addr_1MainSt, Postal_100XX, Num(0), Num(0), Num(3)),
      ListingRow(Addr_1MainSt, Postal_100XX, Num(1), Num(8), None),
      ListingRow(Addr_1MainSt, None, Num(300000), Num(1500), None),
      ListingRow(Addr_1MainSt, Postal_100XX, NotANumber, Num(1500), Num(3)),
      ListingRow(Addr_1MainSt, Postal_100XX, <<"3", "0", "0">>, NotANumber, Num(3)),
      ListingRow(Addr_1MainSt, Postal_100XX, <<"3", "0", "0">>, <<"7">>, <<"3">>) }

\* no column of numbers holds a str
Homogeneous(cells) ==
    ~(\E i, j \in 1..Len(cells) : IsNum(cells[i]) /\ IsStr(cells[j]))

ListingTables ==
    { t \in Tables(ListingRows, MaxListings) :
        /\ Homogeneous([i \in 1..Len(t) |-> t[i].listing_price])
        /\ Homogeneous([i \in 1..Len(t) |-> t[i].sq_ft])
        /\ Homogeneous([i \in 1..Len(t) |-> t[i].bedrooms]) }

InitCleanListings ==
    /\ pc = "listings_raw"
    /\ listings_df \in ListingTables
    /\ listings_clean = <<>>
    /\ PostalIdle /\ AddressIdle /\ DemographicIdle /\ MatchIdle /\ MergeIdle /\ PipelineIdle /\ AppIdle /\ FrameIdle

CleanListingsData ==
    /\ pc = "listings_raw"
    /\ listings_clean' = clean_listings_data(listings_df)
    /\ pc' = "listings_cleaned"
    /\ UNCHANGED <<listings_df, postalVars, addressVars, demographicVars, matchVars, mergeVars, pipelineVars, appVars, frameVars>>

NextCleanListings == CleanListingsData

SpecCleanListings == InitCleanListings /\ [][NextCleanListings]_vars

----------------------------------------------------------------------------
(* clean_demographics_data on every table of at most MaxDemographics rows. *)

MaxDemographics == 2

ZipCells ==
    { Num(10001), Num(501), Num(123456), None,
      <<"0", "0", "5", "0", "1">>, <<"5", "0", "1">>,
      <<"1", "2", "3", "4", "5", "-", "6", "7", "8", "9">> }

DemographicRows ==
    UNION { { DemographicRow(z, Num(80000), Num(7), <<"l", "o", "w">>),
              DemographicRow(z, None, Num(7), <<" ", "H", "I", "G", "H", " ">>),
              DemographicRow(z, NotANumber, <<"7">>, None) } : z \in ZipCells }

DemographicTables ==
    { t \in Tables(DemographicRows, MaxDemographics) :
        /\ Homogeneous([i \in 1..Len(t) |-> t[i].zip_code])
        /\ Homogeneous([i \in 1..Len(t) |-> t[i].median_income])
        /\ Homogeneous([i \in 1..Len(t) |-> t[i].school_rating]) }

InitCleanDemographics ==
    /\ pc = "demographics_raw"
    /\ demographics_df \in DemographicTables
    /\ demographics_clean = <<>>
    /\ PostalIdle /\ AddressIdle /\ ListingIdle /\ MatchIdle /\ MergeIdle /\ PipelineIdle /\ AppIdle /\ FrameIdle

CleanDemographicsData ==
    /\ pc = "demographics_raw"
    /\ demographics_clean' = clean_demographics_data(demographics_df)
    /\ pc' = "demographics_cleaned"
    /\ UNCHANGED <<demographics_df, postalVars, addressVars, listingVars, matchVars, mergeVars, pipelineVars, appVars, frameVars>>

NextCleanDemographics == CleanDemographicsData

SpecCleanDemographics == InitCleanDemographics /\ [][NextCleanDemographics]_vars

----------------------------------------------------------------------------
(* fuzzy_match_postal_codes on cleaned listings and cleaned demographics:  *)
(* every table of at most MaxListings cleaned listings, every table of at  *)
(* most MaxDemographics cleaned demographic rows, every threshold of       *)
(* Thresholds.                                                             *)

\* 0 accepts every score, 81 refuses the score 80, 101 refuses every score
Thresholds == {0, DefaultThreshold, DefaultThreshold + 1, 101}

MatchPostalCodes ==
    { None, <<"1", "0", "0", "0", "0">>, <<"1", "0", "0", "0", "1">>,
      <<"7", "7", "7", "7", "7">> }

MatchZipCodes == { 10001, 10002, 100, 90210 }

\* the rows clean_listings_data makes of listings with these postal codes
CleanedListingRows ==
    { clean_listings_data(
          <<ListingRow(Addr_1MainSt, p, Num(300000), Num(1500), Num(3))>>)[1] :
        p \in MatchPostalCodes }

\* the rows clean_demographics_data makes of rows with these zip codes
CleanedDemographicRows ==
    { clean_demographics_data(
          <<DemographicRow(Num(z), Num(80000), Num(7), <<"l", "o", "w">>)>>)[1] :
        z \in MatchZipCodes }

InitMatch ==
    /\ pc = "cleaned"
    /\ listings_df = <<>>
    /\ demographics_df = <<>>
    /\ listings_clean \in Tables(CleanedListingRows, MaxListings)
    /\ demographics_clean \in Tables(CleanedDemographicRows, MaxDemographics)
    /\ threshold \in Thresholds
    /\ listings_matched = <<>>
    /\ PostalIdle /\ AddressIdle /\ MergeIdle /\ PipelineIdle /\ AppIdle /\ FrameIdle

FuzzyMatchPostalCodes ==
    /\ pc = "cleaned"
    /\ listings_matched' =
          fuzzy_match_postal_codes(listings_clean, demographics_clean, threshold)
    /\ pc' = "matched"
    /\ UNCHANGED <<threshold, postalVars, addressVars, listingVars, demographicVars, mergeVars, pipelineVars, appVars, frameVars>>

NextMatch == FuzzyMatchPostalCodes

SpecMatch == InitMatch /\ [][NextMatch]_vars

----------------------------------------------------------------------------
(* fuzzy_match_postal_codes with the default threshold, then merge_data,   *)
(* then get_summary_statistics, as process_all_data and the dashboard      *)
(* chain them: on every table of at most MaxListings cleaned listings and  *)
(* every table of 1 to MaxDemographics cleaned demographic rows, rows with *)
(* the same zip_code included; and merge_data on its own.                  *)

MergePostalCodes == { None, <<"7", "7", "7", "7", "7">>, <<"1", "0", "0", "0", "1">> }

MergeListingRows ==
    { clean_listings_data(
          <<ListingRow(Addr_1MainSt, p, Num(300000), Num(1500), Num(3))>>)[1] :
        p \in MergePostalCodes }
    \cup
    { clean_listings_data(
          <<ListingRow(Addr_1MainSt, <<"1", "0", "0", "0", "2">>, Num(0), Num(1500), None)>>)[1] }

MergeDemographicRows ==
    { clean_demographics_data(<<r>>)[1] :
        r \in { DemographicRow(Num(10001), Num(80000), Num(7), <<"l", "o", "w">>),
                DemographicRow(Num(10001), None, Num(7), <<"l", "o", "w">>),
                DemographicRow(Num(10001), Num(0), None, <<"l", "o", "w">>),
                DemographicRow(Num(10002), Num(70000), Num(9), <<"h", "i", "g", "h">>) } }

\* merge_data is public: called on its own, its listings may carry any
\* matched_zip_code, also one that is no zip_code of the demographics
MergeKeys == { None, <<"1", "0", "0", "0", "1">>, <<"9", "9", "9", "9", "9">> }

WithMatchedZipCodes(listings, keys) ==
    [i \in 1..Len(listings) |-> listings[i] @@ [matched_zip_code |-> keys[i]]]

InitMerge ==
    /\ listings_df = <<>>
    /\ demographics_df = <<>>
    /\ demographics_clean \in Tables(MergeDemographicRows, MaxDemographics) \ {<<>>}
    /\ threshold = DefaultThreshold
    /\ \/ /\ pc = "cleaned"
          /\ listings_clean \in Tables(MergeListingRows, MaxListings)
          /\ listings_matched = <<>>
       \/ /\ pc = "matched"
          /\ listings_clean \in Tables({ r \in MergeListingRows : r.listing_price # Num(0) /\ r.postal_code # None },
                                      MaxListings) \ {<<>>}
          /\ \E keys \in [1..Len(listings_clean) -> MergeKeys] :
                listings_matched = WithMatchedZipCodes(listings_clean, keys)
    /\ PostalIdle /\ AddressIdle /\ MergeIdle /\ PipelineIdle /\ AppIdle /\ FrameIdle

MergeData ==
    /\ pc = "matched"
    /\ merged' = merge_data(listings_matched, demographics_clean)
    /\ pc' = "merged"
    /\ UNCHANGED <<stats, postalVars, addressVars, listingVars, demographicVars, matchVars, pipelineVars, appVars, frameVars>>

GetSummaryStatistics ==
    /\ pc = "merged"
    /\ stats' = get_summary_statistics(merged)
    /\ pc' = "summarized"
    /\ UNCHANGED <<merged, postalVars, addressVars, listingVars, demographicVars, matchVars, pipelineVars, appVars, frameVars>>

NextMerge == FuzzyMatchPostalCodes \/ MergeData \/ GetSummaryStatistics

SpecMerge == InitMerge /\ [][NextMerge]_vars

----------------------------------------------------------------------------
(* process_all_data called again and again on two DataProcessors, while    *)
(* the files change between the calls and the cache entry expires.         *)

Listing_100XX == ListingRow(Addr_1MainSt, Postal_100XX, Num(300000), Num(1500), Num(3))

Listing_10001 ==
    ListingRow(Addr_1MainSt, <<"1", "0", "0", "0", "1">>, Num(300000), Num(1500), Num(3))

Demographic_10001 == DemographicRow(Num(10001), Num(80000), Num(7), <<"l", "o", "w">>)

\* a header without rows is an empty table
ListingFiles ==
    { MissingFile, DeniedFile, CsvFile(<<>>), CsvFile(<<Listing_100XX>>),
      CsvFile(<<Listing_10001>>) }

DemographicFiles == { MissingFile, DeniedFile, CsvFile(<<Demographic_10001>>) }

FilesUnder(path) ==
    IF \E p \in Processors : p.listings_path = path THEN ListingFiles ELSE DemographicFiles

\* between the reruns of the script of app.py
AppPositions == {"session_started", "rerun"}

PipelinePositions == {"constructed", "returned", "files_changed"} \cup AppPositions

InitPipeline ==
    /\ pc = "constructed"
    /\ files \in { fs \in [Paths -> ListingFiles \cup DemographicFiles] :
                     \A path \in Paths : fs[path] \in FilesUnder(path) }
    /\ Constructed
    /\ PostalIdle /\ AddressIdle /\ ListingIdle /\ DemographicIdle /\ MatchIdle /\ MergeIdle
    /\ AppIdle /\ FrameIdle

\* processor.process_all_data()
ProcessAllData(processor) ==
    /\ pc \in PipelinePositions
    /\ LET call == process_all_data(processor, files, cache)
       IN  /\ returned' = call.returned
           /\ raised' = call.raised
           /\ cache' = call.cache
           /\ merged_df' = IF call.assigned
                           THEN [merged_df EXCEPT ![processor] = <<call.returned>>]
                           ELSE merged_df
    /\ self_paths' = processor
    /\ pc' = "returned"
    /\ UNCHANGED <<files, postalVars, addressVars, listingVars, demographicVars, matchVars, mergeVars, self_demographics_df, self_listings_df, appVars, frameVars>>

\* between two calls a file is written, removed or made unreadable
WriteFile(path, file) ==
    /\ pc \in PipelinePositions
    /\ files[path] # file
    /\ files' = [files EXCEPT ![path] = file]
    /\ pc' = "files_changed"
    /\ UNCHANGED <<cache, self_paths, returned, raised, merged_df, postalVars, addressVars, listingVars, demographicVars, matchVars, mergeVars, self_demographics_df, self_listings_df, appVars, frameVars>>

\* ttl=3600: an hour after it was stored the entry is gone
CacheExpires ==
    /\ pc \in PipelinePositions
    /\ cache # <<>>
    /\ cache' = <<>>
    /\ UNCHANGED <<pc, files, self_paths, returned, raised, merged_df, postalVars, addressVars, listingVars, demographicVars, matchVars, mergeVars, self_demographics_df, self_listings_df, appVars, frameVars>>

NextPipeline ==
    \/ \E processor \in Processors : ProcessAllData(processor)
    \/ \E path \in Paths : \E file \in FilesUnder(path) : WriteFile(path, file)
    \/ CacheExpires

SpecPipeline == InitPipeline /\ [][NextPipeline]_vars

----------------------------------------------------------------------------
(* One run of process_all_data, statement by statement.  The position is   *)
(* named after what the run has completed.                                 *)

Positions ==
    << "Uninitialized", "Loaded", "ListingsCleaned", "Cleaned", "Matched", "Merged",
       "Ready" >>

\* the position after the statement at position i has returned normally,
\* with one statement left out
Following_SkipsAStatement(i) == IF i + 2 <= Len(Positions) THEN Positions[i + 2] ELSE "Ready"

\* lines 309-329 are straight-line code: the position after the statement at
\* position i has returned normally
Following(i) == Positions[i + 1]

\* df = listings_df.copy() (lines 164, 201, 234): the component works on a
\* table of its own; without the copy the table of the caller would be the
\* table the component has worked on
ArgumentAfterCall_NoCopy(argument, worked) == worked

ArgumentAfterCall(argument, worked) == argument

Listing_NoPrice == ListingRow(Addr_1MainSt, Postal_100XX, None, Num(1500), Num(3))

Demographic_NoIncome == DemographicRow(Num(10001), None, Num(7), <<"l", "o", "w">>)

StageListingFiles ==
    { MissingFile, DeniedFile }
    \cup { CsvFile(t) : t \in Tables({Listing_10001, Listing_100XX, Listing_NoPrice}, MaxListings) }

StageDemographicFiles ==
    { MissingFile, DeniedFile }
    \cup { CsvFile(t) : t \in Tables({Demographic_10001, Demographic_NoIncome}, MaxDemographics) }

\* the cache is empty, or holds what an earlier call within the hour stored
StageCaches ==
    { <<>>, <<Return(<<>>, <<>>)>>, <<Return(<<Demographic_10001>>, <<Listing_10001>>)>> }

InitStages ==
    /\ pc = "Uninitialized"
    /\ \E d \in StageDemographicFiles : \E l \in StageListingFiles :
          files = [path \in Paths |->
                      IF path = AppProcessor.demographics_path THEN d
                      ELSE IF path = AppProcessor.listings_path THEN l
                      ELSE MissingFile]
    /\ cache \in StageCaches
    /\ self_paths = AppProcessor
    /\ returned = <<>>
    /\ raised = NoException
    /\ merged_df = [p \in Processors |-> <<>>]
    /\ self_demographics_df = [p \in Processors |-> <<>>]
    /\ self_listings_df = [p \in Processors |-> <<>>]
    /\ threshold = DefaultThreshold
    /\ listings_matched = <<>>
    /\ PostalIdle /\ AddressIdle /\ ListingIdle /\ DemographicIdle /\ MergeIdle
    /\ AppIdle /\ FrameIdle

\* line 309: demographics_df, listings_df = self.load_data()
StageLoad ==
    /\ pc = "Uninitialized"
    /\ LET loaded == load_data(self_paths, files, cache)
       IN  /\ cache' = loaded.cache
           /\ raised' = loaded.value.exception
           /\ demographics_df' = loaded.value.demographics_df
           /\ listings_df' = loaded.value.listings_df
           /\ pc' = IF loaded.value.exception = NoException THEN Following(1) ELSE "Raised"
    /\ UNCHANGED <<listings_clean, demographics_clean, files, self_paths, returned, merged_df, self_demographics_df, self_listings_df, postalVars, addressVars, matchVars, mergeVars, appVars, frameVars>>

\* lines 311-313: return pd.DataFrame()
StageReturnEmpty ==
    /\ pc = "Loaded"
    /\ demographics_df = <<>> \/ listings_df = <<>>
    /\ returned' = <<>>
    /\ pc' = "Failed"
    /\ UNCHANGED <<files, cache, self_paths, raised, merged_df, self_demographics_df, self_listings_df, postalVars, addressVars, listingVars, demographicVars, matchVars, mergeVars, appVars, frameVars>>

\* line 316
StageCleanListings ==
    /\ pc = "Loaded"
    /\ demographics_df # <<>> /\ listings_df # <<>>
    /\ listings_clean' = clean_listings_data(listings_df)
    /\ listings_df' = ArgumentAfterCall(listings_df, listings_clean')
    /\ pc' = Following(2)
    /\ UNCHANGED <<postalVars, addressVars, demographicVars, matchVars, mergeVars, pipelineVars, appVars, frameVars>>

\* line 317
StageCleanDemographics ==
    /\ pc = "ListingsCleaned"
    /\ demographics_clean' = clean_demographics_data(demographics_df)
    /\ demographics_df' = ArgumentAfterCall(demographics_df, demographics_clean')
    /\ pc' = Following(3)
    /\ UNCHANGED <<postalVars, addressVars, listingVars, matchVars, mergeVars, pipelineVars, appVars, frameVars>>

\* lines 320-323
StageMatch ==
    /\ pc = "Cleaned"
    /\ listings_matched' =
          fuzzy_match_postal_codes(listings_clean, demographics_clean, threshold)
    /\ listings_clean' = ArgumentAfterCall(listings_clean, listings_matched')
    /\ pc' = Following(4)
    /\ UNCHANGED <<threshold, listings_df, postalVars, addressVars, demographicVars, mergeVars, pipelineVars, appVars, frameVars>>

\* line 326; pd.merge builds a table of its own
StageMerge ==
    /\ pc = "Matched"
    /\ merged' = merge_data(listings_matched, demographics_clean)
    /\ pc' = Following(5)
    /\ UNCHANGED <<stats, postalVars, addressVars, listingVars, demographicVars, matchVars, pipelineVars, appVars, frameVars>>

\* lines 328-329: self.merged_df = merged_df; return merged_df
StageReturn ==
    /\ pc = "Merged"
    /\ merged_df' = [merged_df EXCEPT ![self_paths] = <<merged>>]
    /\ returned' = merged
    /\ pc' = Following(6)
    /\ UNCHANGED <<files, cache, self_paths, raised, self_demographics_df, self_listings_df, postalVars, addressVars, listingVars, demographicVars, matchVars, mergeVars, appVars, frameVars>>

NextStages ==
    \/ StageLoad \/ StageReturnEmpty \/ StageCleanListings \/ StageCleanDemographics
    \/ StageMatch \/ StageMerge \/ StageReturn

SpecStages == InitStages /\ [][NextStages]_vars

----------------------------------------------------------------------------
(* The components called one by one on tables with and without columns.    *)
(* Here a table carries its column labels next to its rows, so that the    *)
(* table pd.DataFrame() of load_data's handler (no row and no column) and  *)
(* the table of a file that holds a header line only (the columns, no row) *)
(* are two tables.                                                         *)

DataFrame(columns, rows) == [columns |-> columns, rows |-> rows]

\* line 46: pd.DataFrame()
pd_DataFrame == DataFrame({}, <<>>)

\* the outcome of a call on such tables
Returned(table) == [exception |-> NoException, table |-> table]

Raised(exception) == [exception |-> exception, table |-> pd_DataFrame]

\* df[name] raises KeyError when df has no column of that label
getitem(df, labels) == labels \subseteq df.columns

\* lines 164-189
clean_listings_frame(df) ==
    IF ~getitem(df, {"postal_code", "raw_address", "sq_ft", "bedrooms", "listing_price"})
    THEN Raised("KeyError")
    ELSE Returned(DataFrame(df.columns \cup {"postal_code_normalized", "address_normalized",
                                              "price_per_sqft"},
                            clean_listings_data(df.rows)))

\* lines 201-213
clean_demographics_frame(df) ==
    IF ~getitem(df, {"zip_code", "median_income", "school_rating", "crime_index"})
    THEN Raised("KeyError")
    ELSE Returned(DataFrame(df.columns, clean_demographics_data(df.rows)))

\* lines 234-267
fuzzy_match_frame(listings, demographics, cutoff) ==
    IF ~getitem(demographics, {"zip_code"}) \/ ~getitem(listings, {"postal_code_normalized"})
    THEN Raised("KeyError")
    ELSE Returned(DataFrame(listings.columns \cup {"matched_zip_code"},
                            fuzzy_match_postal_codes(listings.rows, demographics.rows, cutoff)))

\* lines 285-299: pd.merge looks both keys up
merge_frame(listings, demographics) ==
    IF ~getitem(listings, {"matched_zip_code"}) \/ ~getitem(demographics, {"zip_code"})
    THEN Raised("KeyError")
    ELSE Returned(DataFrame(listings.columns \cup demographics.columns
                                \cup {"price_to_income_ratio"},
                            merge_data(listings.rows, demographics.rows)))

\* what read_csv makes of a file of these rows, a header line alone included
FrameListingRows == {Listing_10001, Listing_100XX, Listing_NoPrice}

FrameDemographicRows == {Demographic_10001, Demographic_NoIncome}

RawListingFrames ==
    { DataFrame(DOMAIN Listing_10001, rows) : rows \in Tables(FrameListingRows, MaxListings) }

RawDemographicFrames ==
    { DataFrame(DOMAIN Demographic_10001, rows) :
        rows \in Tables(FrameDemographicRows, MaxDemographics) }

CleanedListingFrames == { clean_listings_frame(df).table : df \in RawListingFrames }

CleanedDemographicFrames == { clean_demographics_frame(df).table : df \in RawDemographicFrames }

MatchedListingFrames ==
    { fuzzy_match_frame(l, d, DefaultThreshold).table :
        l \in CleanedListingFrames, d \in CleanedDemographicFrames }

\* a call: the component and its arguments
Call(component, arguments) == [component |-> component, arguments |-> arguments]

FrameCalls ==
    { Call("clean_listings_data", <<df>>) : df \in RawListingFrames \cup {pd_DataFrame} }
    \cup { Call("clean_demographics_data", <<df>>) :
             df \in RawDemographicFrames \cup {pd_DataFrame} }
    \cup { Call("fuzzy_match_postal_codes", <<l, d>>) :
             l \in CleanedListingFrames \cup {pd_DataFrame},
             d \in CleanedDemographicFrames \cup {pd_DataFrame} }
    \cup { Call("merge_data", <<l, d>>) :
             l \in MatchedListingFrames \cup {pd_DataFrame},
             d \in CleanedDemographicFrames \cup {pd_DataFrame} }

InitFrames ==
    /\ pc = "frame_call"
    /\ \E c \in FrameCalls : frame_call = <<c>>
    /\ frame_result = <<>>
    /\ PostalIdle /\ AddressIdle /\ ListingIdle /\ DemographicIdle /\ MatchIdle
    /\ MergeIdle /\ PipelineIdle /\ AppIdle

FrameReturn(outcome) ==
    /\ pc' = "frame_returned"
    /\ frame_result' = <<outcome>>
    /\ UNCHANGED <<frame_call, postalVars, addressVars, listingVars, demographicVars,
                   matchVars, mergeVars, pipelineVars, appVars>>

CallCleanListings ==
    /\ pc = "frame_call" /\ frame_call[1].component = "clean_listings_data"
    /\ FrameReturn(clean_listings_frame(frame_call[1].arguments[1]))

CallCleanDemographics ==
    /\ pc = "frame_call" /\ frame_call[1].component = "clean_demographics_data"
    /\ FrameReturn(clean_demographics_frame(frame_call[1].arguments[1]))

CallFuzzyMatch ==
    /\ pc = "frame_call" /\ frame_call[1].component = "fuzzy_match_postal_codes"
    /\ FrameReturn(fuzzy_match_frame(frame_call[1].arguments[1], frame_call[1].arguments[2],
                                     DefaultThreshold))

CallMerge ==
    /\ pc = "frame_call" /\ frame_call[1].component = "merge_data"
    /\ FrameReturn(merge_frame(frame_call[1].arguments[1], frame_call[1].arguments[2]))

NextFrames == CallCleanListings \/ CallCleanDemographics \/ CallFuzzyMatch \/ CallMerge

SpecFrames == InitFrames /\ [][NextFrames]_vars

----------------------------------------------------------------------------
(* One session of the dashboard: streamlit runs the script again on every  *)
(* interaction (a rerun), while the two files of the data folder change    *)
(* and the cache entry expires.  The DataProcessor of a rerun is local to  *)
(* load_and_process_data and is gone when it returns.                      *)

AppPaths == {AppProcessor.demographics_path, AppProcessor.listings_path}

InitApp ==
    /\ pc = "session_started"
    /\ files \in { fs \in [Paths -> ListingFiles \cup DemographicFiles] :
                     /\ \A path \in AppPaths : fs[path] \in FilesUnder(path)
                     /\ \A path \in Paths \ AppPaths : fs[path] = MissingFile }
    /\ Constructed
    /\ AppIdle
    /\ PostalIdle /\ AddressIdle /\ ListingIdle /\ DemographicIdle /\ MatchIdle /\ MergeIdle
    /\ FrameIdle

\* the script has run to its end, or to the exception that stopped it
RerunEnds(run) ==
    /\ data_loaded' = run.session.data_loaded
    /\ session_merged_df' = run.session.merged_df
    /\ cache' = run.cache
    /\ returned' = run.returned
    /\ raised' = run.raised
    /\ invoked' = run.invoked
    /\ pc' = "rerun"
    /\ UNCHANGED <<files, self_paths, merged_df, self_demographics_df, self_listings_df, postalVars, addressVars, listingVars, demographicVars, matchVars, mergeVars, frameVars>>

Rerun ==
    /\ pc \in PipelinePositions
    /\ RerunEnds(main(Session(data_loaded, session_merged_df), files, cache))

NextApp ==
    \/ Rerun
    \/ \E path \in AppPaths : \E file \in FilesUnder(path) : WriteFile(path, file)
    \/ CacheExpires

SpecApp == InitApp /\ [][NextApp]_vars

----------------------------------------------------------------------------
(* Claims about normalize_postal_code *)

IsFiveAsciiDigits(v) == Len(v) = 5 /\ \A i \in 1..5 : v[i] \in AsciiDigits

\* C1: for every input string, normalize_postal_code returns either absent
\* (None) or a string of exactly 5 ASCII digits.
C1_FiveAsciiDigitsOrAbsent ==
    pc = "postal_normalized" =>
        (postal_norm = None \/ IsFiveAsciiDigits(postal_norm))

\* C2: normalize_postal_code("325XX") = "32500", normalize_postal_code("9021")
\* = "09021", and normalize_postal_code(None) is absent.
C2_Examples ==
    pc = "postal_normalized" =>
        /\ (postal_code = <<"3", "2", "5", "X", "X">>
               => postal_norm = <<"3", "2", "5", "0", "0">>)
        /\ (postal_code = <<"9", "0", "2", "1">>
               => postal_norm = <<"0", "9", "0", "2", "1">>)
        /\ (postal_code = None => postal_norm = None)

\* the input as the normalizer looks at it: trimmed and upper-cased
Trimmed == Upper(Strip(postal_code))

HasMask(s) == \E i \in 1..Len(s) : s[i] = "X"

HasDigit(s) == \E i \in 1..Len(s) : IsDigit(s[i])

\* s[b..e] is the first maximal run of digits of s
IsFirstDigitRun(s, b, e) ==
    /\ \A i \in 1..(b - 1) : ~IsDigit(s[i])
    /\ \A i \in b..e : IsDigit(s[i])
    /\ e = Len(s) \/ ~IsDigit(s[e + 1])

\* at most 5 characters, zeros put before them up to length 5
LeftPadded(s) ==
    [i \in 1..5 |-> IF i <= 5 - Len(s) THEN "0" ELSE s[i - (5 - Len(s))]]

FirstFive(s) == SubSeq(s, 1, IF Len(s) < 5 THEN Len(s) ELSE 5)

\* C17: when the upper-cased, trimmed input of normalize_postal_code contains
\* an 'X' (and a digit), the result is the first 5 characters of the first
\* maximal run of digits, left-padded with zeros to length 5; digits after the
\* mask or after any other non-digit are ignored ("12X345" gives "00012").
C17_MaskedKeepsFirstDigitRun ==
    (pc = "postal_normalized" /\ postal_code # None) =>
        /\ (HasMask(Trimmed) /\ HasDigit(Trimmed)) =>
              \E b \in 1..Len(Trimmed) : \E e \in b..Len(Trimmed) :
                  /\ IsFirstDigitRun(Trimmed, b, e)
                  /\ postal_norm = LeftPadded(FirstFive(SubSeq(Trimmed, b, e)))
        /\ postal_code = <<"1", "2", "X", "3", "4", "5">>
              => postal_norm = <<"0", "0", "0", "1", "2">>

\* C17 witness: "12X345" has been normalized to "00012": the digits after the
\* mask are not in the result.
C17_Witness ==
    /\ pc = "postal_normalized"
    /\ postal_code = <<"1", "2", "X", "3", "4", "5">>
    /\ HasMask(Trimmed)
    /\ postal_norm = <<"0", "0", "0", "1", "2">>

\* C18: when the (upper-cased, trimmed) input of normalize_postal_code contains
\* no 'X', and also when it contains an 'X' but no digit at all, all non-digit
\* characters are stripped and the result is the first 5 digits if 5 or more
\* remain, the digits zero-padded on the left to length 5 if 1 to 4 remain, and
\* absent if none remain.
C18_UnmaskedStripsNonDigits ==
    (pc = "postal_normalized" /\ postal_code # None
        /\ (~HasMask(Trimmed) \/ ~HasDigit(Trimmed))) =>
        LET remaining == SelectSeq(Trimmed, IsDigit)
        IN  IF Len(remaining) >= 5 THEN postal_norm = FirstFive(remaining)
            ELSE IF Len(remaining) >= 1 THEN postal_norm = LeftPadded(remaining)
            ELSE postal_norm = None

\* C18 witness: an input without mask whose digits are split by a non-digit
\* and number fewer than 5 has been normalized to the digits, zero-padded.
C18_Witness ==
    /\ pc = "postal_normalized"
    /\ postal_code = <<"1", "2", "-", "0">>
    /\ ~HasMask(Trimmed)
    /\ postal_norm = <<"0", "0", "1", "2", "0">>

\* C30: normalize_postal_code is idempotent on its own output and on absent
\* input: applied to what it returned, it returns the same value.
C30_NormalizePostalCodeIdempotent ==
    pc = "postal_renormalized" => postal_again = postal_norm

\* a masked input with surrounding blanks and fewer than five digits, whose
\* padded result is returned again by the second application
C30_Witness ==
    /\ pc = "postal_renormalized"
    /\ postal_code # None
    /\ HasMask(Upper(Strip(postal_code)))
    /\ postal_norm # None
    /\ postal_norm # postal_code
    /\ Head(postal_norm) = "0"
    /\ postal_again = postal_norm

----------------------------------------------------------------------------
(* Claims about normalize_address *)

\* C3: normalize_address is idempotent: normalize_address(normalize_address(x))
\* = normalize_address(x) for every input x, also when punctuation separates
\* the letters of an abbreviation ("s.t", "a-ve").
C3_Idempotent ==
    pc = "address_renormalized" => addr_again = addr_norm

\* C4: the output of normalize_address is lower-case, its tokens are separated
\* by exactly one space with no leading or trailing whitespace, and it holds no
\* punctuation: every character is a letter, a digit or a single space (the
\* underscore does not survive).
C4_LowerSingleSpacedNoPunctuation ==
    pc \in {"address_normalized", "address_renormalized"} =>
        /\ \A i \in 1..Len(addr_norm) :
              addr_norm[i] \in LowerLetters \cup AsciiDigits \cup UnicodeDigits \cup {" "}
        /\ addr_norm # <<>> => (addr_norm[1] # " " /\ addr_norm[Len(addr_norm)] # " ")
        /\ \A i \in 1..(Len(addr_norm) - 1) :
              ~(addr_norm[i] = " " /\ addr_norm[i + 1] = " ")

\* a token that consists of decimal digits only
PurelyNumeric(w) == w # <<>> /\ \A i \in 1..Len(w) : w[i] \in AsciiDigits \cup UnicodeDigits

\* the tokens of a single-spaced string
Tokens(s) == Split(s)

\* the positions of ws the deduplication has to keep: every numeric token, and
\* the first occurrence of every other token
KeptPositions(ws) ==
    { i \in 1..Len(ws) : PurelyNumeric(ws[i]) \/ \A j \in 1..(i - 1) : ws[j] # ws[i] }

\* the subsequence of ws at the positions of P, in order
RECURSIVE Restrict(_, _, _)
Restrict(ws, P, i) ==
    IF i > Len(ws) THEN <<>>
    ELSE (IF i \in P THEN <<ws[i]>> ELSE <<>>) \o Restrict(ws, P, i + 1)

Count(ws, w) == Cardinality({ i \in 1..Len(ws) : ws[i] = w })

\* C5: in the output of normalize_address every non-numeric token appears at
\* most once, at the place of its first occurrence, and every purely numeric
\* token is emitted as many times as it occurs among the tokens that reach the
\* deduplication, so no numeric token of the input is lost; "1 Main 1 Main"
\* gives "1 main 1".
C5_DedupKeepsNumbers ==
    (pc \in {"address_normalized", "address_renormalized"} /\ addr_raw # None) =>
        LET words == AddressWords(addr_raw)
            out == Tokens(addr_norm)
        IN  /\ out = Restrict(words, KeptPositions(words), 1)
            /\ \A i \in 1..Len(out) :
                  IF PurelyNumeric(out[i])
                  THEN Count(out, out[i]) = Count(words, out[i])
                  ELSE Count(out, out[i]) = 1
            /\ \A i \in 1..Len(Split(addr_raw)) :
                  PurelyNumeric(Split(addr_raw)[i]) =>
                      Count(out, Split(addr_raw)[i]) >= Count(Split(addr_raw), Split(addr_raw)[i])
            /\ addr_raw = Addr_1Main1Main
                  => addr_norm = <<"1", " ", "m", "a", "i", "n", " ", "1">>

\* C5 witness: "1 Main 1 Main" has been normalized: its second "1" is kept and
\* its second "main" is dropped.
C5_Witness ==
    /\ pc = "address_normalized"
    /\ addr_raw = Addr_1Main1Main
    /\ Count(AddressWords(addr_raw), <<"1">>) = 2
    /\ Count(AddressWords(addr_raw), <<"m", "a", "i", "n">>) = 2
    /\ Count(Tokens(addr_norm), <<"1">>) = 2
    /\ Count(Tokens(addr_norm), <<"m", "a", "i", "n">>) = 1

\* the whitespace-separated tokens of the input, lower-cased
InputTokens(a) == Split(Lower(a))

\* abbreviation ab stands as a whole word, with or without a trailing period
IsAbbreviation(token, ab) == token \in {ab[1], ab[1] \o <<".">>}

\* C6: every abbreviation of the rule table (st, ave, blvd, rd, dr, ln, ct, pl,
\* pkwy, cir, sq) that stands in the input as a whole word, with or without a
\* trailing period, is emitted as its full form and not as the abbreviation:
\* the word at its place becomes the full form, and the full form is a token of
\* the output; normalize_address("123 Main St.") = "123 main street".
C6_AbbreviationsExpanded ==
    (pc \in {"address_normalized", "address_renormalized"} /\ addr_raw # None) =>
        LET tokens == InputTokens(addr_raw)
            expanded == Split(Expanded(addr_raw))
            out == Tokens(addr_norm)
        IN  /\ \A i \in 1..Len(tokens) : \A ab \in Abbreviations :
                  IsAbbreviation(tokens[i], ab) =>
                      /\ RemovePunctuation(expanded[i]) = ab[2]
                      /\ \E k \in 1..Len(out) : out[k] = ab[2]
            /\ addr_raw = Addr_123MainSt
                  => addr_norm = <<"1", "2", "3", " ", "m", "a", "i", "n", " ",
                                   "s", "t", "r", "e", "e", "t">>

\* C6 witness: "123 Main St." has been normalized to "123 main street".
C6_Witness ==
    /\ pc = "address_normalized"
    /\ addr_raw = Addr_123MainSt
    /\ IsAbbreviation(InputTokens(addr_raw)[3], <<<<"s", "t">>, <<"s", "t", "r", "e", "e", "t">>>>)
    /\ addr_norm = <<"1", "2", "3", " ", "m", "a", "i", "n", " ",
                     "s", "t", "r", "e", "e", "t">>

----------------------------------------------------------------------------
(* Claims about the dataset cleaner *)

\* c hundredths is the quotient price / size rounded to 2 decimals
IsRoundedQuotient(c, price, size) ==
    /\ size > 0
    /\ 2 * (100 * price - c * size) <= size
    /\ 2 * (c * size - 100 * price) <= size

\* C7: after clean_listings_data no row has a null listing_price or a null
\* sq_ft, and every surviving row has a computed (non-null) price_per_sqft equal
\* to price / size rounded to 2 decimals, for every input table, rows whose
\* sq_ft is 0 included.
C7_PricePerSqftComputed ==
    pc = "listings_cleaned" =>
        \A i \in 1..Len(listings_clean) :
            LET r == listings_clean[i]
            IN  /\ r.listing_price # None
                /\ r.sq_ft # None
                /\ IsDec(r.price_per_sqft)
                /\ IsRoundedQuotient(r.price_per_sqft[2], r.listing_price[2], r.sq_ft[2])

\* the cell is a number, or text that reads as one
Numeric(cell) == to_numeric(cell) # None

\* the positions of the raw rows that have a price and a size
RowsToKeep(df) ==
    { i \in 1..Len(df) : Numeric(df[i].listing_price) /\ Numeric(df[i].sq_ft) }

\* C19: clean_listings_data removes exactly the rows whose price or size is
\* missing or non-numeric: every other input row survives (also rows with an
\* absent postal_code_normalized or a null bedroom count), once each and in the
\* input order.
C19_DropsExactlyRowsWithoutPriceOrSize ==
    pc = "listings_cleaned" =>
        LET survivors == Restrict(listings_df, RowsToKeep(listings_df), 1)
        IN  /\ Len(listings_clean) = Len(survivors)
            /\ \A k \in 1..Len(survivors) :
                  /\ listings_clean[k].raw_address = survivors[k].raw_address
                  /\ listings_clean[k].postal_code = survivors[k].postal_code
                  /\ listings_clean[k].listing_price = to_numeric(survivors[k].listing_price)
                  /\ listings_clean[k].sq_ft = to_numeric(survivors[k].sq_ft)
                  /\ listings_clean[k].bedrooms = to_numeric(survivors[k].bedrooms)

\* C19 witness: of two raw rows the first, without price, is gone, and the
\* second, without postal code and without bedroom count, is the one cleaned row.
C19_Witness ==
    /\ pc = "listings_cleaned"
    /\ Len(listings_df) = 2
    /\ listings_df[1].listing_price = None
    /\ listings_df[2].postal_code = None
    /\ Len(listings_clean) = 1
    /\ listings_clean[1].postal_code_normalized = None
    /\ listings_clean[1].bedrooms = None
    /\ listings_clean[1].listing_price = Num(300000)

\* C8: after clean_demographics_data every zip_code is a string of exactly 5
\* characters and zip_code is a unique key of the cleaned table, for every raw
\* table (raw values longer than 5 characters and raw values that pad to the
\* same string included).
C8_ZipFiveCharsUniqueKey ==
    pc = "demographics_cleaned" =>
        /\ \A i \in 1..Len(demographics_clean) : Len(demographics_clean[i].zip_code) = 5
        /\ \A i, j \in 1..Len(demographics_clean) :
              demographics_clean[i].zip_code = demographics_clean[j].zip_code => i = j

----------------------------------------------------------------------------
(* Claims about the fuzzy matcher *)

\* the reference ZIP set the matcher is given
ReferenceZips == { demographics_clean[i].zip_code : i \in 1..Len(demographics_clean) }

\* C9: if the normalized postal code of a listing is equal to some entry of the
\* reference ZIP set, the matcher returns that same string, for every threshold
\* (also above 100) and whatever the other candidates score.
C9_ExactMatchWins ==
    pc = "matched" =>
        \A i \in 1..Len(listings_matched) :
            listings_matched[i].postal_code_normalized \in ReferenceZips =>
                listings_matched[i].matched_zip_code =
                    listings_matched[i].postal_code_normalized

\* C9 witness: a listing whose postal code is in the reference set, beside
\* another reference entry, has been matched to itself under threshold 101.
C9_Witness ==
    /\ pc = "matched"
    /\ threshold > 100
    /\ Cardinality(ReferenceZips) > 1
    /\ \E i \in 1..Len(listings_matched) :
          /\ listings_matched[i].postal_code_normalized \in ReferenceZips
          /\ listings_matched[i].matched_zip_code =
                listings_matched[i].postal_code_normalized

\* the score of candidate z for postal code q is the maximum over the reference set
IsBestScore(q, z) ==
    \A other \in ReferenceZips : ScoreGE(fuzz_ratio(q, z), fuzz_ratio(q, other))

ReachesThreshold(q, z) == ScoreGE(fuzz_ratio(q, z), <<threshold, 1>>)

\* C10: for a present postal code that is not in the reference set, the matcher
\* returns a candidate whose similarity score is the maximum over all reference
\* entries when that maximum is >= threshold (the threshold value itself is
\* accepted), and returns absent when the maximum is below threshold.
C10_BestCandidateOrAbsent ==
    pc = "matched" =>
        \A i \in 1..Len(listings_matched) :
            LET q == listings_matched[i].postal_code_normalized
                m == listings_matched[i].matched_zip_code
            IN  (q # None /\ q \notin ReferenceZips) =>
                    IF \E z \in ReferenceZips : ReachesThreshold(q, z)
                    THEN m \in ReferenceZips /\ IsBestScore(q, m) /\ ReachesThreshold(q, m)
                    ELSE m = None

\* C10 witness: under threshold 80, "10000" is not a reference entry and has
\* been matched to a candidate that scores exactly 80, while a worse candidate
\* was there; and another listing, whose best score is below 80, got absent.
C10_Witness ==
    /\ pc = "matched"
    /\ threshold = DefaultThreshold
    /\ \E i \in 1..Len(listings_matched) :
          LET q == listings_matched[i].postal_code_normalized
              m == listings_matched[i].matched_zip_code
          IN  /\ q # None /\ q \notin ReferenceZips /\ m # None
              /\ fuzz_ratio(q, m) = <<800, 10>>
              /\ \E z \in ReferenceZips : ~ScoreGE(fuzz_ratio(q, z), fuzz_ratio(q, m))
    /\ \E i \in 1..Len(listings_matched) :
          /\ listings_matched[i].postal_code_normalized # None
          /\ listings_matched[i].matched_zip_code = None

\* the positions of the reference list whose score for q reaches the cutoff
\* and is exceeded at no position
TopPositions(q, zips, cutoff) ==
    { k \in 1..Len(zips) :
        /\ ScoreGE(fuzz_ratio(q, zips[k]), <<cutoff, 1>>)
        /\ \A j \in 1..Len(zips) : ~ScoreGT(fuzz_ratio(q, zips[j]), fuzz_ratio(q, zips[k])) }

\* the match as a function of the normalized postal code, the reference list
\* in its order and the threshold: the first of the top positions
FirstBest(q, zips, cutoff) ==
    IF q = None THEN None
    ELSE IF \E k \in 1..Len(zips) : zips[k] = q THEN q
    ELSE LET top == TopPositions(q, zips, cutoff)
         IN  IF top = {} THEN None
             ELSE zips[CHOOSE k \in top : \A j \in top : k <= j]

\* C24: the matcher is deterministic: the same normalized postal code, the
\* same reference set in the same order and the same threshold always give the
\* same result; two listings of one run with equal postal_code_normalized get
\* equal matched_zip_code; and among candidates tied at the top score the
\* first in reference order is returned.
C24_MatchIsFunctionOfPostalReferenceThreshold ==
    pc = "matched" =>
        /\ \A i \in 1..Len(listings_matched) :
              listings_matched[i].matched_zip_code =
                  FirstBest(listings_matched[i].postal_code_normalized,
                            ValidZips(demographics_clean), threshold)
        /\ \A i, j \in 1..Len(listings_matched) :
              listings_matched[i].postal_code_normalized
                  = listings_matched[j].postal_code_normalized
              => listings_matched[i].matched_zip_code = listings_matched[j].matched_zip_code

\* two listings with the same postal code, which is no reference zip code and
\* has two reference zip codes tied at the top score; the earlier one is matched
C24_Witness ==
    /\ pc = "matched"
    /\ Len(listings_matched) = 2
    /\ listings_matched[1].postal_code_normalized = listings_matched[2].postal_code_normalized
    /\ LET q == listings_matched[1].postal_code_normalized
           zips == ValidZips(demographics_clean)
       IN  /\ q # None
           /\ Len(zips) = 2
           /\ TopPositions(q, zips, threshold) = {1, 2}
           /\ listings_matched[1].matched_zip_code = zips[1]
           /\ listings_matched[2].matched_zip_code = zips[1]

\* C26: for every listing, matched_zip_code is either absent or a member of
\* the zip_code set of the cleaned demographics; it is absent whenever
\* postal_code_normalized is absent or the reference set is empty; and the
\* matcher adds one value per listing without adding, dropping or reordering
\* listing rows.
C26_MatchedZipIsAbsentOrReferenceZip ==
    pc = "matched" =>
        /\ Len(listings_matched) = Len(listings_clean)
        /\ \A i \in 1..Len(listings_matched) :
              LET q == listings_matched[i].postal_code_normalized
                  m == listings_matched[i].matched_zip_code
              IN  /\ DOMAIN listings_matched[i]
                        = DOMAIN listings_clean[i] \cup {"matched_zip_code"}
                  /\ \A c \in DOMAIN listings_clean[i] :
                        listings_matched[i][c] = listings_clean[i][c]
                  /\ m = None \/ m \in ReferenceZips
                  /\ (q = None \/ ReferenceZips = {}) => m = None

\* two listings, the first without a postal code, the second with a postal
\* code that is no reference zip code and is matched to one
C26_Witness ==
    /\ pc = "matched"
    /\ Len(listings_matched) = 2
    /\ listings_matched[1].postal_code_normalized = None
    /\ listings_matched[1].matched_zip_code = None
    /\ listings_matched[2].postal_code_normalized \notin ReferenceZips
    /\ listings_matched[2].matched_zip_code \in ReferenceZips

----------------------------------------------------------------------------
(* Claims about merge_data *)

\* C11: merge_data is a left join that preserves cardinality: the unified
\* table has exactly as many rows as the matched-listings table, for every
\* demographics table (also one in which several rows carry the same zip_code).
C11_RowCountPreserved ==
    pc \in {"merged", "summarized"} => Len(merged) = Len(listings_matched)

\* C12: in the unified table price_to_income_ratio equals listing_price /
\* median_income rounded to 2 decimals on every row where both values are
\* present (the quotient of float division: inf, or NaN for 0 / 0, when a
\* present median income is zero), and is null on every other row (unmatched
\* listing or null median income).
C12_PriceToIncomeRatio ==
    pc \in {"merged", "summarized"} =>
        \A k \in 1..Len(merged) :
            LET r == merged[k]
                ratio == r.price_to_income_ratio
            IN  IF r.listing_price # None /\ r.median_income # None
                THEN IF r.median_income[2] # 0
                     THEN /\ IsDec(ratio)
                          /\ IsRoundedQuotient(ratio[2], r.listing_price[2], r.median_income[2])
                     ELSE ratio = (IF r.listing_price[2] = 0 THEN None ELSE Inf)
                ELSE ratio = None

\* C12 witness: a merged table with a row whose ratio is 300000 / 80000 =
\* 3.75, a matched row whose median income is null and an unmatched row, both
\* with a null ratio.
C12_Witness ==
    /\ pc = "merged"
    /\ \E k \in 1..Len(merged) :
          /\ merged[k].listing_price = Num(300000)
          /\ merged[k].median_income = Num(80000)
          /\ merged[k].price_to_income_ratio = Dec(375)
    /\ \E k \in 1..Len(merged) :
          /\ merged[k].zip_code # None
          /\ merged[k].median_income = None
          /\ merged[k].price_to_income_ratio = None
    /\ \E k \in 1..Len(merged) :
          /\ merged[k].matched_zip_code = None
          /\ merged[k].price_to_income_ratio = None

ListingColumns ==
    { "raw_address", "postal_code", "postal_code_normalized", "address_normalized",
      "sq_ft", "bedrooms", "listing_price", "price_per_sqft", "matched_zip_code" }

DemographicColumns == { "zip_code", "median_income", "school_rating", "crime_index" }

ListingPart(r) == [c \in ListingColumns |-> r[c]]

DemographicPart(r) == [c \in DemographicColumns |-> r[c]]

DemographicZips == { demographics_clean[j].zip_code : j \in 1..Len(demographics_clean) }

HasNullDemographics(r) == \A c \in DemographicColumns : r[c] = None

\* C20: in the unified table a listing row has null demographic columns exactly
\* when its matched_zip_code is absent or equals no demographic zip_code;
\* otherwise its demographic columns are those of a demographic row whose
\* zip_code is string-equal to its matched_zip_code; and the listing columns of
\* every row are unchanged by the merge: every unified row carries the columns
\* of a matched listing, and every matched listing is in the unified table.
C20_LeftJoinOnEqualZip ==
    pc \in {"merged", "summarized"} =>
        /\ \A k \in 1..Len(merged) :
              /\ \E i \in 1..Len(listings_matched) :
                    ListingPart(merged[k]) = ListingPart(listings_matched[i])
              /\ HasNullDemographics(merged[k])
                    <=> (merged[k].matched_zip_code = None
                         \/ merged[k].matched_zip_code \notin DemographicZips)
              /\ ~HasNullDemographics(merged[k]) =>
                    \E j \in 1..Len(demographics_clean) :
                        /\ demographics_clean[j].zip_code = merged[k].matched_zip_code
                        /\ DemographicPart(merged[k]) = DemographicPart(demographics_clean[j])
        /\ \A i \in 1..Len(listings_matched) :
              \E k \in 1..Len(merged) :
                  ListingPart(merged[k]) = ListingPart(listings_matched[i])

\* C20 witness: a unified table with a row whose matched_zip_code is no
\* demographic zip_code and whose demographic columns are null, and a row
\* that carries the columns of the demographic row of its matched_zip_code.
C20_Witness ==
    /\ pc = "merged"
    /\ \E k \in 1..Len(merged) :
          /\ merged[k].matched_zip_code # None
          /\ merged[k].matched_zip_code \notin DemographicZips
          /\ HasNullDemographics(merged[k])
    /\ \E k \in 1..Len(merged) :
          /\ merged[k].matched_zip_code \in DemographicZips
          /\ merged[k].zip_code = merged[k].matched_zip_code
          /\ merged[k].median_income = Num(80000)

\* the eight fields of the statistics the dashboard reads
StatisticsFields ==
    { "total_listings", "avg_price", "avg_price_per_sqft", "avg_median_income",
      "avg_sqft", "avg_bedrooms", "avg_school_rating", "unique_zip_codes" }

\* the matched ZIP codes of the table, the absent one left out
MatchedZips(df) == { df[k].matched_zip_code : k \in 1..Len(df) } \ {None}

\* C15: get_summary_statistics returns an empty statistics object for an empty
\* table and never fails on it; for a non-empty unified table it returns
\* exactly the eight fields total listing count, mean price, mean
\* price-per-sqft, mean median income, mean size, mean bedroom count, mean
\* school rating and count of distinct matched ZIP codes, where the total
\* equals the row count and the distinct count ignores rows with an absent
\* matched_zip_code.
C15_SummaryStatistics ==
    pc = "summarized" =>
        IF merged = <<>> THEN DOMAIN stats = {}
        ELSE /\ DOMAIN stats = StatisticsFields
             /\ stats.total_listings = Len(merged)
             /\ stats.unique_zip_codes = Cardinality(MatchedZips(merged))
             /\ stats.avg_price =
                   <<"mean", Sum(Column(merged, "listing_price")), Len(merged)>>
             /\ stats.avg_sqft = <<"mean", Sum(Column(merged, "sq_ft")), Len(merged)>>

\* C15 witness: the statistics of a unified table of several rows, one of them
\* with an absent matched_zip_code and the others matched to one ZIP code.
C15_Witness ==
    /\ pc = "summarized"
    /\ Len(merged) > 1
    /\ \E k \in 1..Len(merged) : merged[k].matched_zip_code = None
    /\ Cardinality(MatchedZips(merged)) = 1
    /\ stats.total_listings = Len(merged)
    /\ stats.unique_zip_codes = 1

----------------------------------------------------------------------------
(* Claims about process_all_data and load_data *)

\* the call that has just returned got these two tables from load_data
Loaded(demographics, listings) ==
    /\ pc = "returned"
    /\ raised = NoException
    /\ cache = <<Return(demographics, listings)>>

\* C13: end to end, for the one listing {address "1 Main St", postal "100XX",
\* price 300000, sqft 1500, beds 3} and the one demographic row {zip_code
\* "10001", median_income 80000, school_rating 7, crime_index "low"}, the
\* unified output has postal_code_normalized = "10000", price_per_sqft = 200.0,
\* matched_zip_code either absent or "10001", and price_to_income_ratio = 3.75
\* when matched.
C13_EndToEndExample ==
    Loaded(<<Demographic_10001>>, <<Listing_100XX>>) =>
        /\ Len(returned) = 1
        /\ returned[1].postal_code_normalized = <<"1", "0", "0", "0", "0">>
        /\ returned[1].price_per_sqft = Dec(20000)
        /\ returned[1].matched_zip_code \in {None, <<"1", "0", "0", "0", "1">>}
        /\ returned[1].matched_zip_code # None
              => returned[1].price_to_income_ratio = Dec(375)

\* a source table of the DataProcessor that was called cannot be read
SourceUnreadable ==
    \/ files[self_paths.demographics_path][1] # "csv"
    \/ files[self_paths.listings_path][1] # "csv"

\* C14: whenever either source table cannot be read (for any kind of read
\* failure, not only a missing file), process_all_data returns an empty unified
\* table and no exception escapes to the caller.
C14_UnreadableSourceGivesEmptyTable ==
    (pc = "returned" /\ SourceUnreadable) =>
        (returned = <<>> /\ raised = NoException)

\* what a call that reads the two files of the DataProcessor now gives
ReadNow == process_all_data(self_paths, files, <<>>)

\* C16: the core does no caching of its own: every call of load_data /
\* process_all_data reads the two source files as they are at the time of the
\* call, so the result is a function of the current two input tables only (a
\* call made after a file changed, after a previously missing file appeared, or
\* on another DataProcessor with other paths never returns data of an earlier
\* call).
C16_EveryCallReadsTheFiles ==
    pc = "returned" =>
        (returned = ReadNow.returned /\ raised = ReadNow.raised)

----------------------------------------------------------------------------
(* Claims about the stages of process_all_data *)

Stages == << "Uninitialized", "Loaded", "Cleaned", "Matched", "Merged", "Ready" >>

\* the stage of a position: a stage is reached when its work is complete
StageOf(position) == IF position = "ListingsCleaned" THEN "Loaded" ELSE position

StageIndex(position) == CHOOSE i \in 1..Len(Stages) : Stages[i] = StageOf(position)

Ended(position) == position \in {"Ready", "Failed", "Raised"}

\* a step stays in its stage, goes to the next one, or ends the run early
StageStep ==
    /\ ~Ended(pc)
    /\ \/ pc' \in {"Failed", "Raised"}
       \/ StageIndex(pc') \in {StageIndex(pc), StageIndex(pc) + 1}

\* the tables of the stages reached so far are made of those of the stage before
StageInputs ==
    /\ pc \in {"Cleaned", "Matched", "Merged", "Ready"} =>
          /\ listings_clean = clean_listings_data(listings_df)
          /\ demographics_clean = clean_demographics_data(demographics_df)
    /\ pc \in {"Matched", "Merged", "Ready"} =>
          listings_matched =
              fuzzy_match_postal_codes(listings_clean, demographics_clean, DefaultThreshold)
    /\ pc \in {"Merged", "Ready"} => merged = merge_data(listings_matched, demographics_clean)
    /\ pc = "Ready" => returned = merged

\* C21: a run of process_all_data passes through the stages Uninitialized,
\* Loaded, Cleaned, Matched, Merged, Ready in that order with no stage repeated
\* or skipped and no transition back to an earlier stage; the matcher only ever
\* sees cleaned listings and cleaned demographics, and the merger only ever
\* sees matched listings.
C21_StagesInOrder == [][StageStep]_vars /\ []StageInputs

\* C21 witness: a run has reached Ready with a unified table of several rows.
C21_Witness ==
    /\ pc = "Ready"
    /\ Len(listings_df) > 1
    /\ Len(returned) > 1
    /\ returned = merge_data(listings_matched, demographics_clean)

\* an input table of the run is empty: a loaded table, or the listings table
\* once the cleaner has dropped every row
InputEmpty ==
    \/ pc # "Uninitialized" /\ (demographics_df = <<>> \/ listings_df = <<>>)
    \/ pc \notin {"Uninitialized", "Loaded"} /\ listings_clean = <<>>

\* C22: from any stage of the pipeline, when an input table is missing or
\* empty (either loaded table empty, or the listings table empty after cleaning
\* has dropped every row), the orchestrator ends in Failed and does not reach
\* Ready.
C22_EmptyInputEndsInFailed ==
    (InputEmpty /\ raised = NoException) =>
        /\ pc # "Ready"
        /\ Ended(pc) => pc = "Failed"

----------------------------------------------------------------------------
(* Claims about the components on empty tables *)

\* every table handed to the call has no row
CalledOnEmptyTables ==
    /\ pc = "frame_returned"
    /\ \A k \in 1..Len(frame_call[1].arguments) : frame_call[1].arguments[k].rows = <<>>

\* C23: each of the cleaner, matcher and merger, called on an empty input
\* table (such as the empty tables load_data yields when a source is
\* missing), returns an empty output table and does not raise.
C23_EmptyInEmptyOut ==
    CalledOnEmptyTables =>
        /\ frame_result[1].exception = NoException
        /\ frame_result[1].table.rows = <<>>

----------------------------------------------------------------------------
(* Claims about what the components leave alone *)

\* a step of the run writes the table its statement assigns and nothing else:
\* the table handed to a component is after the call what it was before
ArgumentsKept ==
    /\ pc # "Uninitialized" => listings_df' = listings_df /\ demographics_df' = demographics_df
    /\ pc # "Loaded" => listings_clean' = listings_clean
    /\ pc # "ListingsCleaned" => demographics_clean' = demographics_clean
    /\ pc # "Cleaned" => listings_matched' = listings_matched
    /\ pc # "Matched" => merged' = merged

\* the components write neither the files, nor the cache entry, nor the
\* attributes of the DataProcessor
NoSharedStateWritten ==
    /\ files' = files
    /\ pc # "Uninitialized" => cache' = cache
    /\ pc # "Merged" => merged_df' = merged_df
    /\ self_demographics_df' = self_demographics_df
    /\ self_listings_df' = self_listings_df

\* C25: clean_listings_data, clean_demographics_data,
\* fuzzy_match_postal_codes and merge_data leave the tables they receive
\* unchanged (same rows, same columns, same values) and return a new table;
\* no component writes state that another component reads.
C25_ComponentsLeaveArgumentsUnchanged ==
    [][ArgumentsKept /\ NoSharedStateWritten]_vars

\* a finished run in which every component returned rows with a column its
\* argument does not have, and the arguments are as they were loaded
C25_Witness ==
    /\ pc = "Ready"
    /\ returned # <<>>
    /\ listings_df \in Tables(FrameListingRows, MaxListings)
    /\ demographics_df \in Tables(FrameDemographicRows, MaxDemographics)
    /\ listings_clean = clean_listings_data(listings_df)
    /\ "matched_zip_code" \notin DOMAIN listings_clean[1]
    /\ "matched_zip_code" \in DOMAIN listings_matched[1]
    /\ "zip_code" \notin DOMAIN listings_matched[1]
    /\ "zip_code" \in DOMAIN returned[1]

----------------------------------------------------------------------------
(* Claims about the unified table of a run *)

\* C27: in the output of process_all_data, every row with a present
\* matched_zip_code has a demographic zip_code equal to it, and every row with
\* an absent matched_zip_code has all demographic columns and
\* price_to_income_ratio null.
C27_UnifiedRowsJoinedOrNull ==
    pc = "Ready" =>
        \A k \in 1..Len(returned) :
            IF returned[k].matched_zip_code # None
            THEN returned[k].zip_code = returned[k].matched_zip_code
            ELSE /\ \A c \in DemographicColumns : returned[k][c] = None
                 /\ returned[k].price_to_income_ratio = None

\* a unified table with a matched and an unmatched listing
C27_Witness ==
    /\ pc = "Ready"
    /\ \E k \in 1..Len(returned) :
          /\ returned[k].matched_zip_code # None
          /\ returned[k].zip_code = returned[k].matched_zip_code
    /\ \E k \in 1..Len(returned) :
          /\ returned[k].matched_zip_code = None
          /\ returned[k].postal_code_normalized # None
          /\ returned[k].median_income = None

----------------------------------------------------------------------------
(* Claims about the attributes of a DataProcessor *)

\* a step that is a call of process_all_data: it ends at "returned", changes
\* no file and drops no cache entry
CallStep == pc' = "returned" /\ files' = files /\ (cache' = cache \/ cache = <<>>)

\* what self.merged_df of the called DataProcessor is after the step, the
\* attribute of the others staying what it was
MergedDfAfter(processor, value) == [merged_df EXCEPT ![processor] = value]

AttributesStep ==
    /\ self_demographics_df' = self_demographics_df
    /\ self_listings_df' = self_listings_df
    /\ ~CallStep => merged_df' = merged_df
    /\ CallStep =>
          LET loaded == load_data(self_paths', files, cache).value
          IN  IF loaded.exception # NoException
              THEN raised' = loaded.exception /\ merged_df' = merged_df
              ELSE IF loaded.demographics_df = <<>> \/ loaded.listings_df = <<>>
              THEN /\ returned' = <<>> /\ raised' = NoException
                   /\ merged_df' = merged_df
              ELSE /\ raised' = NoException
                   /\ merged_df' = MergedDfAfter(self_paths', <<returned'>>)

\* C28: over any sequence of process_all_data calls on one DataProcessor, a
\* successful call sets self.merged_df to exactly the table it returns; a
\* failed call (either loaded table empty) returns an empty table and leaves
\* self.merged_df unchanged, so it keeps None or the table of the last
\* successful call; no call ever assigns self.demographics_df or
\* self.listings_df.
C28_MergedDfFollowsSuccessfulCalls ==
    [][AttributesStep]_vars

\* a failed call on a DataProcessor that keeps the table of an earlier
\* successful call, its other attributes still None
C28_Witness ==
    /\ pc = "returned"
    /\ returned = <<>> /\ raised = NoException
    /\ merged_df[self_paths] # <<>>
    /\ merged_df[self_paths][1] # <<>>
    /\ self_demographics_df[self_paths] = <<>>
    /\ self_listings_df[self_paths] = <<>>

----------------------------------------------------------------------------
(* Claims about the session of the dashboard *)

\* a step that is a rerun of the script: it ends at "rerun", changes no file
\* and drops no cache entry
RerunStep == pc' = "rerun" /\ files' = files /\ (cache' = cache \/ cache = <<>>)

\* the session holds a unified table with a row
HoldsUnifiedTable ==
    /\ session_merged_df # <<>>
    /\ session_merged_df[1] # <<>>
    /\ \A k \in 1..Len(session_merged_df[1]) :
          DOMAIN session_merged_df[1][k]
              = ListingColumns \cup DemographicColumns \cup {"price_to_income_ratio"}

SessionStep ==
    /\ data_loaded => data_loaded'
    /\ (RerunStep /\ ~data_loaded) => "load_and_process_data" \in invoked'
    /\ (RerunStep /\ ~data_loaded /\ \A path \in AppPaths : exists(files[path]))
          => "process_all_data" \in invoked'
    /\ (RerunStep /\ data_loaded) => invoked' = {}
    /\ ~RerunStep => invoked' = invoked

\* C29: in the application session, over any sequence of reruns, data_loaded
\* is true only if the session merged_df holds a non-empty unified table;
\* while data_loaded is false every rerun invokes the pipeline
\* (load_and_process_data) again, and once data_loaded is true no later rerun
\* invokes the pipeline and data_loaded never returns to false.
C29_LoadedOnceAndForGood ==
    /\ [](data_loaded => HoldsUnifiedTable)
    /\ [][SessionStep]_vars

\* a rerun after the data were loaded and the listings file was then removed:
\* nothing was called, and the session keeps its table
C29_Witness ==
    /\ pc = "rerun"
    /\ data_loaded /\ HoldsUnifiedTable
    /\ invoked = {}
    /\ files[AppProcessor.listings_path] = MissingFile
    /\ cache = <<>>

====
